---------------------------- MODULE Spec2Model ----------------------------
(***************************************************************************)
(* Model of the adaptive bounding-box query engine of water-on-route       *)
(* (osmApi.js): fetchOSMWaterPointsAdaptive / fetchTile, the upstream      *)
(* client, the response parser and the quadrant split.                     *)
(*                                                                         *)
(* Coordinates and spans are integers in units of 1/800 degree, so that    *)
(* every midpoint (a + b) / 2 the model computes is exact (MidpointsExact  *)
(* checks it): 37.0 deg = 29600, 0.02 deg = 16, 0.01 deg = 8.              *)
(* Durations are integers in milliseconds.                                 *)
(***************************************************************************)
EXTENDS Integers, Sequences, FiniteSets

VARIABLES
  bbox,              \* argument: the root bounding box
  minSpan,           \* options.minSpan
  initialBackoffMs,  \* options.initialBackoffMs
  maxBackoffMs,      \* options.maxBackoffMs
  world,             \* the upstream's database: a sequence of OSM elements
  regime,            \* the upstream's condition: "flaky" or "rate_limited"
  pc,                \* where the call is: start, awaiting, sleeping, done
  stack,             \* the chain of suspended fetchTile invocations
  tilesFetched,      \* the per-call tile counter
  inflight,          \* indices (into requests) of the requests not yet settled
  requests,          \* every upstream request issued, in order
  responses,         \* how each request settled, in order
  progress,          \* the arguments onProgress was called with, in order
  sleeps,            \* every backoff sleep started, in order
  outcome,           \* how the promise of the call settled
  splitCall,         \* a call of splitBboxIntoQuads: its argument and result
  calls,             \* two calls of fetchOSMWaterPointsAdaptive under way
  counters,          \* the tilesFetched bindings the two calls increment
  client,            \* a call of the upstream client (fetchOverpassXml or
                     \* fetchOsmMapXml): arguments, locals, timer, requests
  proxy,             \* a request POST /api/overpass handled by the proxy
  parseCall,         \* a call of parseOsmXmlForWater: its document and result
  filterCall,        \* a call of filterPointsNearRoute: arguments and result
  bboxCall,          \* a call of computeBBoxFromGeoJSON: argument and result
  page,              \* the page (app.js): its module variables, what it
                     \* shows, and the calls of handleGpx under way
  pool,              \* a call of fetchOverpassWaterPoints: its tiles and the
                     \* workers of runWithConcurrency
  mirror             \* a call of requestOverpass: endpoints and requests

\* the state of a call of fetchOSMWaterPointsAdaptive
callVars == << bbox, minSpan, initialBackoffMs, maxBackoffMs, world, regime,
               pc, stack, tilesFetched, inflight, requests, responses,
               progress, sleeps, outcome >>

splitVars == << splitCall >>

twoVars == << calls, counters >>

clientVars == << client >>

proxyVars == << proxy >>

parseVars == << parseCall >>

filterVars == << filterCall >>

bboxVars == << bboxCall >>

pageVars == << page >>

poolVars == << pool >>

mirrorVars == << mirror >>

\* the state of app.js
appVars == << pageVars, poolVars, mirrorVars >>

\* the state of the other components, which a call leaves alone
otherVars == << splitVars, twoVars, clientVars, proxyVars, parseVars,
                filterVars, bboxVars, appVars >>

\* what a call of splitBboxIntoQuads leaves alone
notSplitVars == << callVars, twoVars, clientVars, proxyVars, parseVars,
                   filterVars, bboxVars, appVars >>

\* what the two calls leave alone
notTwoVars == << callVars, splitVars, clientVars, proxyVars, parseVars,
                 filterVars, bboxVars, appVars >>

\* what a call of the upstream client leaves alone
notClientVars == << callVars, splitVars, twoVars, proxyVars, parseVars,
                    filterVars, bboxVars, appVars >>

\* what the proxy leaves alone
notProxyVars == << callVars, splitVars, twoVars, clientVars, parseVars,
                   filterVars, bboxVars, appVars >>

\* what a call of parseOsmXmlForWater leaves alone
notParseVars == << callVars, splitVars, twoVars, clientVars, proxyVars,
                   filterVars, bboxVars, appVars >>

\* what a call of filterPointsNearRoute leaves alone
notFilterVars == << callVars, splitVars, twoVars, clientVars, proxyVars,
                    parseVars, bboxVars, appVars >>

\* what a call of computeBBoxFromGeoJSON leaves alone
notBboxVars == << callVars, splitVars, twoVars, clientVars, proxyVars,
                  parseVars, filterVars, appVars >>

\* what the components of osmApi.js, the proxy and the pure functions are
notAppVars == << callVars, splitVars, twoVars, clientVars, proxyVars,
                 parseVars, filterVars, bboxVars >>

vars == << callVars, otherVars >>

options == << bbox, minSpan, initialBackoffMs, maxBackoffMs, world, regime >>

-----------------------------------------------------------------------------
(* Bounds of the model *)

\* in the flaky regime the upstream fails at most this many requests of a call
MaxFailures == 2

\* of two interleaved calls, the upstream fails at most this many requests each
MaxTwoFailures == 1

\* a call of the upstream client is watched for this many clock ticks (a
\* tick is a third of timeoutMs)
MaxTicks == 5

\* the elements of a parsed document
MaxElements == 3

\* the calls of the parser with one text
MaxParses == 2

\* the candidate points of a call of the filter
MaxPoints == 2

\* the features of a route
MaxFeatures == 2

\* the splits below the box of a route
MaxSplits == 2

\* the files a user loads
MaxUploads == 2

\* the tiles of a call of fetchOverpassWaterPoints
MaxTiles == 3

-----------------------------------------------------------------------------
(* Program constants *)

\* options.minSpan ?? 0.02  (0.02 degree = 16 units)
DefaultMinSpan == 16

\* options.initialBackoffMs ?? 500
DefaultInitialBackoffMs == 500

\* options.maxBackoffMs ?? 4000
DefaultMaxBackoffMs == 4000

\* the value of getStatusFromError when the error carries no status
Undefined == 0

\* timeoutMs = 30000, options.timeoutMs ?? 30000
DefaultTimeoutMs == 30000

\* serverMsg.slice(0, 200)
ExcerptLength == 200

-----------------------------------------------------------------------------
(* Inputs *)

Box(minlat, minlon, maxlat, maxlon) ==
  [minlat |-> minlat, minlon |-> minlon, maxlat |-> maxlat, maxlon |-> maxlon]

\* {minLat: 37.0, minLon: -122.0, maxLat: 37.1, maxLon: -121.9}
ScenarioBox == Box(29600, -97600, 29680, -97520)

\* 0, 0.04 and 0.08 degree
GridCoords == { 0, 32, 64 }

\* boxes with minlat <= maxlat and minlon <= maxlon, zero-width ones included
GridBoxes ==
  { b \in [minlat : GridCoords, minlon : GridCoords,
           maxlat : GridCoords, maxlon : GridCoords] :
      b.minlat <= b.maxlat /\ b.minlon <= b.maxlon }

Boxes == GridBoxes \cup { ScenarioBox }

\* 0.02 degree (the default) and 0.01 degree (the value app.js passes)
MinSpans == { DefaultMinSpan, DefaultMinSpan \div 2 }

InitialBackoffs == { 0, DefaultInitialBackoffMs }

\* 4000 ms (the default, which app.js passes too) and, where every box down
\* to the minimum span fails, also 1000 ms, which the third split exceeds
MaxBackoffs(r) ==
  IF r = "rate_limited"
  THEN { DefaultMaxBackoffMs, DefaultMaxBackoffMs \div 4 }
  ELSE { DefaultMaxBackoffMs }

Tags(amenity, natural, man_made) ==
  [amenity |-> amenity, natural |-> natural, man_made |-> man_made]

\* an OSM element of the upstream database; lat/lon place it, center says
\* whether a way or relation is emitted with a <center> element
Element(type, id, lat, lon, tags, center) ==
  [type |-> type, id |-> id, lat |-> lat, lon |-> lon, tags |-> tags,
   center |-> center]

Fountain == Tags("drinking_water", "", "")
Spring == Tags("", "spring", "")
Tap == Tags("", "", "water_tap")

\* every feature strictly inside one quadrant of the root boxes around it
WorldInterior ==
  << Element("node", 1, 29620, -97580, Fountain, FALSE),
     Element("node", 2, 29620, -97540, Spring, FALSE),
     Element("way", 12, 24, 24, Fountain, TRUE),
     Element("node", 3, 29660, -97580, Tap, FALSE),
     Element("node", 4, 29660, -97540, Fountain, FALSE),
     Element("node", 12, 8, 8, Spring, FALSE) >>

\* features on the midpoint lines of the root boxes around them
WorldBoundary ==
  << Element("relation", 13, 8, 16, Spring, FALSE),
     Element("node", 11, 16, 16, Fountain, FALSE),
     Element("node", 5, 29640, -97560, Tap, FALSE),
     Element("way", 14, 24, 8, Tap, TRUE) >>

Worlds == { WorldInterior, WorldBoundary }

Regimes == { "flaky", "rate_limited" }

\* a component nothing has called
Idle == [pc |-> "idle"]

SplitIdle == splitCall = Idle

TwoIdle == calls = Idle /\ counters = Idle

ClientIdle == client = Idle

ProxyIdle == proxy = Idle

ParseIdle == parseCall = Idle

FilterIdle == filterCall = Idle

BboxIdle == bboxCall = Idle

\* the components of the page outside osmApi.js
AppIdle == page = Idle /\ pool = Idle /\ mirror = Idle

PageIdle == FilterIdle /\ BboxIdle /\ AppIdle

OthersIdle ==
  SplitIdle /\ TwoIdle /\ ClientIdle /\ ProxyIdle /\ ParseIdle /\ PageIdle

-----------------------------------------------------------------------------
(* Errors, as the Splitter sees them *)

NoError == [name |-> "", hasStatus |-> FALSE, status |-> Undefined]

\* fetchOverpassXml: new Error(`Overpass error: ${resp.status}...`) with
\* err.status = resp.status
UpstreamStatus(status) ==
  [name |-> "Error", hasStatus |-> TRUE, status |-> status]

\* fetchWithTimeout: controller.abort() makes the pending fetch reject with
\* an AbortError, which carries no status field
AbortError == [name |-> "AbortError", hasStatus |-> FALSE, status |-> Undefined]

\* fetch rejects with a TypeError ("Failed to fetch") when the connection
\* fails; it carries no status field either
NetworkError == [name |-> "TypeError", hasStatus |-> FALSE, status |-> Undefined]

\* the statuses the flaky upstream may answer with instead of 200
ErrorStatuses == { 400, 429, 500, 504 }

\* typeof err.status === 'number' ? err.status : the code after
\* "OSM API error:" in the message; neither error above has such a message
GetStatusFromError(err) ==
  IF err.hasStatus THEN err.status ELSE Undefined

-----------------------------------------------------------------------------
(* Geometry *)

Max(a, b) == IF a >= b THEN a ELSE b

Min(a, b) == IF a <= b THEN a ELSE b

RECURSIVE Pow2(_)
Pow2(n) == IF n = 0 THEN 1 ELSE 2 * Pow2(n - 1)

BboxSpan(b) ==
  [lat |-> Max(0, b.maxlat - b.minlat), lon |-> Max(0, b.maxlon - b.minlon)]

\* mutant: the quadrants in the order SW, NW, SE, NE
SplitBboxLatFirst(b) ==
  LET midLat == (b.minlat + b.maxlat) \div 2
      midLon == (b.minlon + b.maxlon) \div 2
  IN  << Box(b.minlat, b.minlon, midLat, midLon),
         Box(midLat, b.minlon, b.maxlat, midLon),
         Box(b.minlat, midLon, midLat, b.maxlon),
         Box(midLat, midLon, b.maxlat, b.maxlon) >>

\* mutant: midLon computed from maxlat
SplitBboxMixedMid(b) ==
  LET midLat == (b.minlat + b.maxlat) \div 2
      midLon == (b.minlon + b.maxlat) \div 2
  IN  << Box(b.minlat, b.minlon, midLat, midLon),
         Box(b.minlat, midLon, midLat, b.maxlon),
         Box(midLat, b.minlon, b.maxlat, midLon),
         Box(midLat, midLon, b.maxlat, b.maxlon) >>

SplitBboxIntoQuads(b) ==
  LET midLat == (b.minlat + b.maxlat) \div 2
      midLon == (b.minlon + b.maxlon) \div 2
  IN  << Box(b.minlat, b.minlon, midLat, midLon),
         Box(b.minlat, midLon, midLat, b.maxlon),
         Box(midLat, b.minlon, b.maxlat, midLon),
         Box(midLat, midLon, b.maxlat, b.maxlon) >>

\* mutant: >= for >, so a box at the minimum span is split once more
CanSplitAtMinSpan(tile) ==
  BboxSpan(tile).lat >= minSpan \/ BboxSpan(tile).lon >= minSpan

\* span.lat > minSpan || span.lon > minSpan
CanSplit(tile) ==
  BboxSpan(tile).lat > minSpan \/ BboxSpan(tile).lon > minSpan

\* mutant: 504 is not classified (the split set of the first fetchTile)
RetryableWithout504(status) == status \in { 400, 429 }

\* mutant: 500 is classified as fixable by splitting
RetryableWith500(status) == status \in { 400, 429, 500, 504 }

\* status === 400 || status === 429 || status === 504
Retryable(status) == status \in { 400, 429, 504 }

\* mutant: the delay is not capped
BackoffUncapped(attempt) == initialBackoffMs * Pow2(attempt)

\* Math.min(initialBackoffMs * Math.pow(2, attempt), maxBackoffMs)
Backoff(attempt) == Min(initialBackoffMs * Pow2(attempt), maxBackoffMs)

-----------------------------------------------------------------------------
(* Upstream and parser *)

InBox(e, b) ==
  /\ b.minlat <= e.lat /\ e.lat <= b.maxlat
  /\ b.minlon <= e.lon /\ e.lon <= b.maxlon

\* el.getAttribute(name): null when the element has no such attribute, else
\* its text: a number ("29.62"), nothing ("") or something else ("north")
Absent == [kind |-> "null", n |-> 0]

NumberText(n) == [kind |-> "number", n |-> n]

WordText == [kind |-> "word", n |-> 0]

NaN == [finite |-> FALSE, n |-> 0]

\* Number(x): 0 for null and for '', the number a numeric text spells, NaN
\* for any other text
Number(a) ==
  IF a.kind = "word" THEN NaN ELSE [finite |-> TRUE, n |-> a.n]

\* <tag k=".." v=".."/>; k is "" when the attribute is absent or empty
Tag(k, v) == [k |-> k, v |-> v]

\* <center lat=".." lon=".."/>
Center(lat, lon) == [lat |-> lat, lon |-> lon]

\* an element of the document with the attributes and the children that
\* parseOsmXmlForWater reads; a document is the sequence of its elements in
\* document order
XmlElement(name, id, lat, lon, tags, centers) ==
  [name |-> name, id |-> id, lat |-> lat, lon |-> lon,
   tags |-> tags, centers |-> centers]

\* the XML Overpass prints for an element of the world (out body center)
Xml(e) ==
  XmlElement(e.type, NumberText(e.id),
             IF e.type = "node" THEN NumberText(e.lat) ELSE Absent,
             IF e.type = "node" THEN NumberText(e.lon) ELSE Absent,
             SelectSeq(<< Tag("amenity", e.tags.amenity),
                          Tag("natural", e.tags.natural),
                          Tag("man_made", e.tags.man_made) >>,
                       LAMBDA t : t.v # ""),
             IF e.type # "node" /\ e.center
             THEN << Center(NumberText(e.lat), NumberText(e.lon)) >>
             ELSE << >>)

\* tags = {}; for (const t of tagEls) { if (k) tags[k] = v; }: a tag without
\* a key is skipped and a later tag overwrites an earlier one of its key
TagsOf(tagEls) ==
  LET last(k) == CHOOSE i \in 1..Len(tagEls) :
                   /\ tagEls[i].k = k
                   /\ \A j \in (i + 1)..Len(tagEls) : tagEls[j].k # k
  IN  [k \in { tagEls[i].k : i \in 1..Len(tagEls) } \ { "" } |->
         tagEls[last(k)].v]

\* tags[k]: undefined, which equals no text, when the mapping has no key k
Get(tags, k) == IF k \in DOMAIN tags THEN tags[k] ELSE ""

\* mutant: a tap is not a water point
IsWaterNoTap(tags) ==
  \/ Get(tags, "amenity") = "drinking_water"
  \/ Get(tags, "natural") = "spring"

\* amenity === 'drinking_water' || natural === 'spring' || man_made === 'water_tap'
IsWater(tags) ==
  \/ Get(tags, "amenity") = "drinking_water"
  \/ Get(tags, "natural") = "spring"
  \/ Get(tags, "man_made") = "water_tap"

\* what the Overpass query of buildOverpassWaterQuery selects for a box: the
\* water-tagged nodes, ways and relations inside it (bounds included)
UpstreamDocument(tile) ==
  LET selected == SelectSeq(world, LAMBDA e : InBox(e, tile) /\ IsWater(e.tags))
  IN  [i \in 1..Len(selected) |-> Xml(selected[i])]

\* lat and lon as the parser computes them: of the element itself (node), of
\* its first <center> child (way, relation), NaN without such a child
Position(el) ==
  IF el.name = "node"
  THEN [lat |-> Number(el.lat), lon |-> Number(el.lon)]
  ELSE IF el.centers = << >>
       THEN [lat |-> NaN, lon |-> NaN]
       ELSE [lat |-> Number(el.centers[1].lat),
             lon |-> Number(el.centers[1].lon)]

\* Number.isFinite(lat) && Number.isFinite(lon)
HasPosition(el) == Position(el).lat.finite /\ Position(el).lon.finite

\* mutant: a way or a relation without a position is dropped like a node
OfTypePlaced(doc, type) ==
  SelectSeq(doc, LAMBDA el : /\ el.name = type
                             /\ IsWater(TagsOf(el.tags))
                             /\ HasPosition(el))

\* the elements of one name that are pushed: the tag test, and for a node
\* the test of its position
OfType(doc, type) ==
  SelectSeq(doc, LAMBDA el : /\ el.name = type
                             /\ IsWater(TagsOf(el.tags))
                             /\ (el.name = "node" => HasPosition(el)))

\* a parsed feature; hasPos: lat/lon (node) or center (way, relation) is set
Feature(el) ==
  [id |-> Number(el.id).n, type |-> el.name, tags |-> TagsOf(el.tags),
   hasPos |-> HasPosition(el),
   lat |-> IF HasPosition(el) THEN Position(el).lat.n ELSE 0,
   lon |-> IF HasPosition(el) THEN Position(el).lon.n ELSE 0]

Features(doc) == [i \in 1..Len(doc) |-> Feature(doc[i])]

\* nodes first, then ways, then relations
ParseOsmXmlForWater(doc) ==
  Features(OfType(doc, "node")) \o Features(OfType(doc, "way"))
    \o Features(OfType(doc, "relation"))

-----------------------------------------------------------------------------
(* fetchTile *)

\* one invocation of fetchTile: its arguments, the quadrant it is awaiting
\* (qi, 0 before any split) and the features collected so far (all);
\* path is the chain of quadrant indices that leads from the root to it
Frame(tile, attempt, path) ==
  [tile |-> tile, attempt |-> attempt, path |-> path, qi |-> 0, all |-> << >>]

\* fetchTile(bbox, 0)
RootFrame == Frame(bbox, 0, << >>)

\* mutant: the quadrant is fetched with the attempt of its parent
ChildFrameSameAttempt(f, k) ==
  Frame(SplitBboxIntoQuads(f.tile)[k], f.attempt, Append(f.path, k))

\* fetchTile(q, attempt + 1) for the k-th element q of quads
ChildFrame(f, k) ==
  Frame(SplitBboxIntoQuads(f.tile)[k], f.attempt + 1, Append(f.path, k))

Top(stk) == stk[Len(stk)]

Pop(stk) == SubSeq(stk, 1, Len(stk) - 1)

\* mutant: the increment is lost
CountTileLost(n) == n

\* tilesFetched++
CountTile(n) == n + 1

\* mutant: all = pts, the earlier quadrants' features are overwritten
AccumulateOverwrite(all, pts) == IF Len(pts) > 0 THEN pts ELSE all

\* mutant: all = pts.concat(all)
AccumulatePrepend(all, pts) == IF Len(pts) > 0 THEN pts \o all ELSE all

\* if (pts && pts.length) all = all.concat(pts)
Accumulate(all, pts) == IF Len(pts) > 0 THEN all \o pts ELSE all

\* how a step leaves the call: the new stack, where the call is then
\* (awaiting the request of the invocation just entered, sleeping, or done)
\* and, once done, the value or the error its promise settled with
Entered(stk) ==
  [stack |-> stk, pc |-> "awaiting", state |-> "pending", value |-> << >>,
   err |-> NoError]

Suspended(stk) ==
  [stack |-> stk, pc |-> "sleeping", state |-> "pending", value |-> << >>,
   err |-> NoError]

Fulfilled(value) ==
  [stack |-> << >>, pc |-> "done", state |-> "fulfilled", value |-> value,
   err |-> NoError]

Rejected(err) ==
  [stack |-> << >>, pc |-> "done", state |-> "rejected", value |-> << >>,
   err |-> err]

\* the loop over quads entered (or continued) by frame f with quadrant k:
\* f awaits fetchTile(quads[k], attempt + 1)
Descend(stk, f, k) ==
  Entered(Append(Append(stk, [f EXCEPT !.qi = k]), ChildFrame(f, k)))

\* an invocation returns pts to the invocations below it on the stack stk:
\* the caller concatenates and runs its next quadrant, or returns in turn
RECURSIVE Return(_, _)
Return(stk, pts) ==
  IF stk = << >> THEN Fulfilled(pts)
  ELSE LET f == Top(stk)
           all == Accumulate(f.all, pts)
       IN  IF f.qi < 4
           THEN Descend(Pop(stk), [f EXCEPT !.all = all], f.qi + 1)
           ELSE Return(Pop(stk), all)

\* mutant: the caller's loop catches the error and goes on with no features
ThrowSwallowed(stk, err) == Return(Pop(stk), << >>)

\* throw e: the awaits of the callers are inside their catch blocks, so
\* nothing catches it and the promise of the call rejects
Throw(stk, err) == Rejected(err)

\* the catch block of the invocation on top of stk, up to its first await
Catch(stk, err) ==
  LET f == Top(stk)
      status == GetStatusFromError(err)
  IN  IF Retryable(status) /\ CanSplit(f.tile)
      THEN IF Backoff(f.attempt) > 0
           THEN Suspended(stk)
           ELSE Descend(Pop(stk), f, 1)
      ELSE Throw(stk, err)

Request(f) == [path |-> f.path, tile |-> f.tile, attempt |-> f.attempt]

Response(err, feats) == [ok |-> err = NoError, err |-> err, feats |-> feats]

Outcome(d) == [state |-> d.state, value |-> d.value, err |-> d.err]

\* the call goes on as d says: the request just answered is settled, and
\* the request of an invocation just entered goes out
Proceed(d) ==
  /\ stack' = d.stack
  /\ pc' = d.pc
  /\ outcome' = Outcome(d)
  /\ requests' = IF d.pc = "awaiting"
                 THEN Append(requests, Request(Top(d.stack)))
                 ELSE requests
  /\ inflight' = (inflight \ { Len(requests) }) \cup
                 (IF d.pc = "awaiting" THEN { Len(requests) + 1 } ELSE { })
  /\ UNCHANGED otherVars

-----------------------------------------------------------------------------
(* The state machine *)

Init ==
  /\ bbox \in Boxes
  /\ minSpan \in MinSpans
  /\ initialBackoffMs \in InitialBackoffs
  /\ world \in Worlds
  /\ regime \in Regimes
  /\ maxBackoffMs \in MaxBackoffs(regime)
  /\ pc = "start"
  /\ stack = << >>
  /\ tilesFetched = 0
  /\ inflight = { }
  /\ requests = << >>
  /\ responses = << >>
  /\ progress = << >>
  /\ sleeps = << >>
  /\ outcome = [state |-> "pending", value |-> << >>, err |-> NoError]
  /\ OthersIdle

Failures == Cardinality({ i \in 1..Len(responses) : ~responses[i].ok })

\* fetchOSMWaterPointsAdaptive(bbox, onProgress, options): fetchTile(bbox, 0)
\* runs up to the await of its request
Resolve ==
  /\ pc = "start"
  /\ Proceed(Entered(<< RootFrame >>))
  /\ UNCHANGED << options, tilesFetched, responses, progress, sleeps >>

\* the request of the top invocation is answered 200: count the tile, call
\* onProgress, parse, return to the callers
RespondOk ==
  /\ pc = "awaiting"
  /\ regime = "flaky"
  /\ \E pts \in { ParseOsmXmlForWater(UpstreamDocument(Top(stack).tile)) } :
       /\ tilesFetched' = CountTile(tilesFetched)
       /\ progress' = Append(progress, CountTile(tilesFetched))
       /\ responses' = Append(responses, Response(NoError, pts))
       /\ \E d \in { Return(Pop(stack), pts) } : Proceed(d)
  /\ UNCHANGED << options, sleeps >>

\* the error err reaches the catch block of the top invocation
Fail(err) ==
  \E d \in { Catch(stack, err) } :
    /\ responses' = Append(responses, Response(err, << >>))
    /\ sleeps' = IF d.pc = "sleeping"
                 THEN Append(sleeps, [request |-> Len(requests),
                                      attempt |-> Top(stack).attempt,
                                      ms |-> Backoff(Top(stack).attempt)])
                 ELSE sleeps
    /\ Proceed(d)
    /\ UNCHANGED << options, tilesFetched, progress >>

\* the request is answered with a non-success status
RespondStatus ==
  /\ pc = "awaiting"
  /\ \E status \in ErrorStatuses :
       /\ \/ regime = "flaky" /\ Failures < MaxFailures
          \/ regime = "rate_limited" /\ status = 429
       /\ Fail(UpstreamStatus(status))

\* no answer within timeoutMs: the timer aborts the request
Timeout ==
  /\ pc = "awaiting"
  /\ regime = "flaky"
  /\ Failures < MaxFailures
  /\ Fail(AbortError)

\* the connection fails before any answer
ConnectionLost ==
  /\ pc = "awaiting"
  /\ regime = "flaky"
  /\ Failures < MaxFailures
  /\ Fail(NetworkError)

\* the backoff timer fires: split the tile and fetch its first quadrant
WakeUp ==
  /\ pc = "sleeping"
  /\ Proceed(Descend(Pop(stack), Top(stack), 1))
  /\ UNCHANGED << options, tilesFetched, responses, progress, sleeps >>

Next ==
  Resolve \/ WakeUp \/ RespondStatus \/ Timeout \/ ConnectionLost \/ RespondOk

Spec == Init /\ [][Next]_vars

\* every pending request is eventually answered or aborted by its timer, and
\* every timer fires
FairSpec == Spec /\ WF_vars(Next)

-----------------------------------------------------------------------------
(* splitBboxIntoQuads on its own *)

\* no call of fetchOSMWaterPointsAdaptive is under way
NoCall ==
  /\ bbox = ScenarioBox
  /\ minSpan = DefaultMinSpan
  /\ initialBackoffMs = DefaultInitialBackoffMs
  /\ maxBackoffMs = DefaultMaxBackoffMs
  /\ world = WorldBoundary
  /\ regime = "flaky"
  /\ pc = "idle"
  /\ stack = << >>
  /\ tilesFetched = 0
  /\ inflight = { }
  /\ requests = << >>
  /\ responses = << >>
  /\ progress = << >>
  /\ sleeps = << >>
  /\ outcome = [state |-> "pending", value |-> << >>, err |-> NoError]

\* even coordinates, so that the midpoints are exact; negative ones included
SplitCoords == { -8, -2, 0, 4, 6 }

\* boxes with minlat <= maxlat and minlon <= maxlon, zero-width ones included
SplitBoxes ==
  { b \in [minlat : SplitCoords, minlon : SplitCoords,
           maxlat : SplitCoords, maxlon : SplitCoords] :
      b.minlat <= b.maxlat /\ b.minlon <= b.maxlon } \cup { ScenarioBox }

SplitInit ==
  /\ splitCall \in { [pc |-> "called", box |-> b, quads |-> << >>] : b \in SplitBoxes }
  /\ NoCall
  /\ TwoIdle
  /\ ClientIdle
  /\ ProxyIdle
  /\ ParseIdle
  /\ PageIdle

\* splitBboxIntoQuads(box) returns
SplitReturn ==
  /\ splitCall.pc = "called"
  /\ splitCall' = [splitCall EXCEPT !.pc = "returned",
                                    !.quads = SplitBboxIntoQuads(splitCall.box)]
  /\ UNCHANGED notSplitVars

SplitNext == SplitReturn

SplitSpec == SplitInit /\ [][SplitNext]_vars

-----------------------------------------------------------------------------
(* Two calls of fetchOSMWaterPointsAdaptive whose steps interleave: each    *)
(* step below is one continuation of one call, from an await to the next    *)

CallIds == { 1, 2 }

\* mutant: tilesFetched declared at module level, one binding for all calls
CounterShared(c) == 1

\* let tilesFetched = 0 in the body of the function: one binding per call
CounterOf(c) == c

\* 0.04 x 0.04 degree (its quadrants are at the default minimum span) and
\* 0.04 x 0.08 degree (its quadrants can be split once more)
TwoBoxes == { Box(0, 0, 32, 32), Box(0, 0, 32, 64) }

Call(b) ==
  [bbox |-> b, pc |-> "start", stack |-> << >>, requests |-> << >>,
   responses |-> << >>, progress |-> << >>,
   outcome |-> [state |-> "pending", value |-> << >>, err |-> NoError]]

TwoInit ==
  /\ calls \in [CallIds -> { Call(b) : b \in TwoBoxes }]
  /\ counters = [c \in CallIds |-> 0]
  /\ NoCall
  /\ SplitIdle
  /\ ClientIdle
  /\ ProxyIdle
  /\ ParseIdle
  /\ PageIdle

\* call c goes on as d says, its request answered by resp (if any) and
\* onProgress called with prog (if any)
TwoProceed(c, d, resp, prog) ==
  /\ calls' = [calls EXCEPT
       ![c].stack = d.stack,
       ![c].pc = d.pc,
       ![c].outcome = Outcome(d),
       ![c].requests = IF d.pc = "awaiting"
                       THEN Append(@, Request(Top(d.stack)))
                       ELSE @,
       ![c].responses = @ \o resp,
       ![c].progress = @ \o prog]
  /\ UNCHANGED notTwoVars

TwoFailures(c) ==
  Cardinality({ i \in 1..Len(calls[c].responses) : ~calls[c].responses[i].ok })

\* fetchOSMWaterPointsAdaptive(bbox, onProgress, options) is called
TwoResolve(c) ==
  /\ calls[c].pc = "start"
  /\ counters' = [counters EXCEPT ![CounterOf(c)] = 0]
  /\ TwoProceed(c, Entered(<< Frame(calls[c].bbox, 0, << >>) >>), << >>, << >>)

\* the request of call c is answered 200
TwoRespondOk(c) ==
  /\ calls[c].pc = "awaiting"
  /\ \E pts \in { ParseOsmXmlForWater(UpstreamDocument(Top(calls[c].stack).tile)) } :
     \E n \in { CountTile(counters[CounterOf(c)]) } :
       /\ counters' = [counters EXCEPT ![CounterOf(c)] = n]
       /\ TwoProceed(c, Return(Pop(calls[c].stack), pts),
                     << Response(NoError, pts) >>, << n >>)

\* the request of call c fails: a non-success status, the timeout or the
\* connection
TwoFail(c) ==
  /\ calls[c].pc = "awaiting"
  /\ TwoFailures(c) < MaxTwoFailures
  /\ \E err \in { UpstreamStatus(st) : st \in ErrorStatuses } \cup
                 { AbortError, NetworkError } :
       TwoProceed(c, Catch(calls[c].stack, err), << Response(err, << >>) >>, << >>)
  /\ UNCHANGED counters

\* the backoff timer of call c fires
TwoWakeUp(c) ==
  /\ calls[c].pc = "sleeping"
  /\ TwoProceed(c, Descend(Pop(calls[c].stack), Top(calls[c].stack), 1),
                << >>, << >>)
  /\ UNCHANGED counters

TwoNext ==
  \E c \in CallIds :
    TwoResolve(c) \/ TwoWakeUp(c) \/ TwoFail(c) \/ TwoRespondOk(c)

TwoSpec == TwoInit /\ [][TwoNext]_vars

-----------------------------------------------------------------------------
(* Text. A string is a sequence of tokens: a literal piece (a run of        *)
(* characters that encodeURIComponent leaves alone, or one other            *)
(* character) or a number put into a template.                              *)

Lit(s) == [t |-> "lit", s |-> s, n |-> 0]

Num(n) == [t |-> "num", s |-> "", n |-> n]

Spaces(k) == [i \in 1..k |-> Lit(" ")]

\* a text of n characters, each different from the others
Text(n) == [i \in 1..n |-> Num(i)]

\* the characters of the model's texts that encodeURIComponent escapes (it
\* leaves alone letters, digits and - _ . ! ~ * ' ( ) only), each with its
\* escape
Escapes ==
  { << " ", "%20" >>, << "\n", "%0A" >>, << "\"", "%22" >>, << "%", "%25" >>,
    << "&", "%26" >>, << "+", "%2B" >>, << ",", "%2C" >>, << ":", "%3A" >>,
    << ";", "%3B" >>, << "=", "%3D" >>, << "[", "%5B" >>, << "]", "%5D" >> }

EncodeToken(tok) ==
  IF tok.t = "lit" /\ \E e \in Escapes : e[1] = tok.s
  THEN Lit((CHOOSE e \in Escapes : e[1] = tok.s)[2])
  ELSE tok

\* mutant: the text is sent as it is
EncodeNothing(text) == text

EncodeURIComponent(text) == [i \in 1..Len(text) |-> EncodeToken(text[i])]

-----------------------------------------------------------------------------
(* The upstream client: fetchOverpassXml, fetchOsmMapXml, fetchWithTimeout  *)

OverpassDefaultUrl == "https://overpass-api.de/api/interpreter"

LocalProxyUrl == "http://localhost:3000/api/overpass"

\* window.WOR_CONFIG.overpassUrl when set ("" stands for not set)
GetOverpassUrl(config) == IF config # "" THEN config ELSE OverpassDefaultUrl

\* mutant: the box in the order of the map API
BboxPartLonFirst(b) ==
  << Num(b.minlon), Lit(","), Num(b.minlat), Lit(","),
     Num(b.maxlon), Lit(","), Num(b.maxlat) >>

\* `${b.minlat},${b.minlon},${b.maxlat},${b.maxlon}`
BboxPart(b) ==
  << Num(b.minlat), Lit(","), Num(b.minlon), Lit(","),
     Num(b.maxlat), Lit(","), Num(b.maxlon) >>

\* `${bbox.minlon},${bbox.minlat},${bbox.maxlon},${bbox.maxlat}`
BboxParam(b) ==
  << Num(b.minlon), Lit(","), Num(b.minlat), Lit(","),
     Num(b.maxlon), Lit(","), Num(b.maxlat) >>

\* one line of the query: kind["key"="value"](bboxPart);
Clause(kind, key, value, b) ==
  Spaces(6) \o
  << Lit(kind), Lit("["), Lit("\""), Lit(key), Lit("\""), Lit("="),
     Lit("\""), Lit(value), Lit("\""), Lit("]"), Lit("(") >> \o
  BboxPart(b) \o << Lit(")"), Lit(";"), Lit("\n") >>

ClausesOf(kind, b) ==
  Clause(kind, "amenity", "drinking_water", b) \o
  Clause(kind, "natural", "spring", b) \o
  Clause(kind, "man_made", "water_tap", b)

BuildOverpassWaterQuery(b) ==
  << Lit("\n") >> \o Spaces(4) \o
  << Lit("["), Lit("out"), Lit(":"), Lit("xml"), Lit("]"),
     Lit("["), Lit("timeout"), Lit(":"), Lit("25"), Lit("]"), Lit(";"),
     Lit("\n") >> \o
  Spaces(4) \o << Lit("("), Lit("\n") >> \o
  ClausesOf("node", b) \o ClausesOf("way", b) \o ClausesOf("relation", b) \o
  Spaces(4) \o << Lit(")"), Lit(";"), Lit("\n") >> \o
  Spaces(4) \o
  << Lit("out"), Lit(" "), Lit("body"), Lit(" "), Lit("center"), Lit(" "),
     Lit("qt"), Lit(";"), Lit("\n") >> \o
  Spaces(2)

FormContentType == "application/x-www-form-urlencoded;charset=UTF-8"

\* { method: 'POST', headers: { 'Content-Type': ... }, body } sent to url
OverpassRequest(url, query) ==
  [url |-> << Lit(url) >>,
   method |-> "POST",
   headers |-> { << "Content-Type", FormContentType >> },
   body |-> << Lit("data=") >> \o EncodeURIComponent(query)]

\* { method: 'GET' } sent to the map API
OsmMapRequest(b) ==
  [url |-> << Lit("https://api.openstreetmap.org/api/0.6/map?bbox=") >> \o
           BboxParam(b),
   method |-> "GET",
   headers |-> { },
   body |-> << >>]

NoResponse == [status |-> 0, ok |-> FALSE, body |-> << >>]

\* a call fetchOverpassXml(bbox, timeoutMs) (source "overpass") or
\* fetchOsmMapXml(bbox, timeoutMs) (source "osm")
ClientCall(source, b, config) ==
  [pc |-> "called", source |-> source, bbox |-> b, config |-> config,
   timeoutMs |-> DefaultTimeoutMs, query |-> << >>, wire |-> << >>,
   timer |-> "none", elapsed |-> 0, resp |-> NoResponse, result |-> << >>,
   err |-> NoError]

\* the call up to the await of fetch: the request goes out, the timer is set
Send(c) ==
  LET query == IF c.source = "overpass"
               THEN BuildOverpassWaterQuery(c.bbox) ELSE << >>
      req == IF c.source = "overpass"
             THEN OverpassRequest(GetOverpassUrl(c.config), query)
             ELSE OsmMapRequest(c.bbox)
  IN  [c EXCEPT !.pc = "fetching", !.query = query, !.wire = Append(@, req),
                !.timer = "armed"]

\* mutant: a 429 is retried once by the client itself
OnStatusRetry(c, status, body) ==
  IF status = 429 /\ Len(c.wire) < 2
  THEN Send(c)
  ELSE [c EXCEPT !.resp = [status |-> status, ok |-> status \in 200..299,
                           body |-> body],
                 !.timer = "cleared",
                 !.pc = IF status \in 200..299 THEN "reading" ELSE "reading_error"]

\* fetch resolves with the status line and headers of the response: the
\* finally block clears the timer, then resp.text() is awaited
OnStatus(c, status, body) ==
  [c EXCEPT !.resp = [status |-> status, ok |-> status \in 200..299,
                      body |-> body],
            !.timer = "cleared",
            !.pc = IF status \in 200..299 THEN "reading" ELSE "reading_error"]

\* mutant: the whole body goes into the message
TrimNothing(serverMsg) == serverMsg

\* serverMsg.slice(0, 200)
Trim(serverMsg) == SubSeq(serverMsg, 1, Min(ExcerptLength, Len(serverMsg)))

ErrorPrefix(source) ==
  IF source = "overpass" THEN "Overpass error: " ELSE "OSM API error: "

\* new Error(`Overpass error: ${resp.status}${trimmed ? ` - ${trimmed}` : ''}`)
\* with err.status = resp.status
StatusError(source, status, trimmed) ==
  [name |-> "Error", hasStatus |-> TRUE, status |-> status,
   message |-> << Lit(ErrorPrefix(source)), Num(status) >> \o
               (IF trimmed # << >> THEN << Lit(" - ") >> \o trimmed ELSE << >>)]

\* the body of a non-success response was read as serverMsg ("" when
\* reading failed): throw
OnErrorBody(c, serverMsg) ==
  [c EXCEPT !.pc = "thrown",
            !.err = StatusError(c.source, c.resp.status, Trim(serverMsg))]

ClientBoxes == { ScenarioBox, Box(0, 16, 32, 64) }

\* what the upstream may send as body
ResponseBodies ==
  { Text(0), Text(3), Text(ExcerptLength), Text(ExcerptLength + 50) }

ClientInit ==
  /\ client \in { ClientCall(source, b, config) :
                    source \in { "overpass", "osm" }, b \in ClientBoxes,
                    config \in { "", LocalProxyUrl } }
  /\ NoCall
  /\ SplitIdle
  /\ TwoIdle
  /\ ProxyIdle
  /\ ParseIdle
  /\ PageIdle

ClientSend ==
  /\ client.pc = "called"
  /\ client' = Send(client)
  /\ UNCHANGED notClientVars

\* the status line and the headers of the response arrive
ClientHeaders ==
  /\ client.pc = "fetching"
  /\ \E status \in { 200 } \cup ErrorStatuses, body \in ResponseBodies :
       client' = OnStatus(client, status, body)
  /\ UNCHANGED notClientVars

\* fetch rejects: the connection failed; the finally block clears the timer
ClientFetchFails ==
  /\ client.pc = "fetching"
  /\ client' = [client EXCEPT !.pc = "thrown", !.err = NetworkError,
                              !.timer = "cleared"]
  /\ UNCHANGED notClientVars

\* the timer fires: controller.abort() makes the pending fetch reject
ClientTimerFires ==
  /\ client.pc = "fetching"
  /\ client.timer = "armed"
  /\ client.elapsed >= client.timeoutMs
  /\ client' = [client EXCEPT !.pc = "thrown", !.err = AbortError,
                              !.timer = "fired"]
  /\ UNCHANGED notClientVars

\* resp.text() of a success response resolves: return it
ClientReturnText ==
  /\ client.pc = "reading"
  /\ client' = [client EXCEPT !.pc = "returned", !.result = client.resp.body]
  /\ UNCHANGED notClientVars

\* resp.text() of a success response rejects
ClientBodyFails ==
  /\ client.pc = "reading"
  /\ client' = [client EXCEPT !.pc = "thrown", !.err = NetworkError]
  /\ UNCHANGED notClientVars

\* resp.text() of a non-success response resolves, or rejects (caught)
ClientThrowStatus ==
  /\ client.pc = "reading_error"
  /\ \E serverMsg \in { client.resp.body, << >> } :
       client' = OnErrorBody(client, serverMsg)
  /\ UNCHANGED notClientVars

\* time passes while the call is pending; a timer that is set fires when due
ClientTick ==
  /\ client.pc \in { "fetching", "reading", "reading_error" }
  /\ client.elapsed < MaxTicks * (client.timeoutMs \div 3)
  /\ ~(client.timer = "armed" /\ client.elapsed >= client.timeoutMs)
  /\ client' = [client EXCEPT !.elapsed =
       IF client.timer = "armed"
       THEN Min(@ + client.timeoutMs \div 3, client.timeoutMs)
       ELSE @ + client.timeoutMs \div 3]
  /\ UNCHANGED notClientVars

ClientNext ==
  \/ ClientSend \/ ClientHeaders \/ ClientFetchFails \/ ClientTimerFires
  \/ ClientReturnText \/ ClientBodyFails \/ ClientThrowStatus \/ ClientTick

ClientSpec == ClientInit /\ [][ClientNext]_vars

-----------------------------------------------------------------------------
(* The proxy (server/index.js): POST /api/overpass *)

JsonContentType == "application/json"

\* a Content-Type: the media type and its charset parameter, "" for none
MediaType(type, charset) == [type |-> type, charset |-> charset]

\* upstreamResp.headers.get('content-type') is null
NoContentType == MediaType("", "")

\* a request as the handler gets it: the content type and req.body as
\* express.json or express.urlencoded parsed it; an empty text stands for a
\* field that is absent, which || treats like the empty string
ProxyRequest(contentType, query, data) ==
  [pc |-> "received", contentType |-> contentType,
   body |-> [query |-> query, data |-> data],
   wire |-> << >>, timer |-> "unset",
   upstream |-> [status |-> 0, type |-> NoContentType, text |-> << >>],
   status |-> 0, sentType |-> NoContentType, sent |-> << >>, responses |-> 0,
   aborted |-> FALSE, failed |-> FALSE]

\* req.body.query || req.body.data for JSON, req.body.data ||
\* req.body.query || '' otherwise
ProxyQuery(p) ==
  IF p.contentType = JsonContentType
  THEN IF p.body.query # << >> THEN p.body.query ELSE p.body.data
  ELSE IF p.body.data # << >> THEN p.body.data ELSE p.body.query

\* fetch(OVERPASS_URL, { method: 'POST', headers, body, signal })
ProxyUpstreamRequest(p) ==
  [url |-> << Lit(OverpassDefaultUrl) >>,
   method |-> "POST",
   headers |-> { << "Content-Type", FormContentType >> },
   body |-> << Lit("data=") >> \o EncodeURIComponent(ProxyQuery(p))]

\* queries a caller may post: none, a plain statement, one with characters
\* that mean something in a form body
ProxyTexts ==
  { << >>,
    << Lit("node"), Lit("("), Num(1), Lit(")"), Lit(";") >>,
    << Lit("a"), Lit("&"), Lit("b"), Lit("="), Lit("c"), Lit("+"),
       Lit("%"), Lit("20"), Lit(" ") >> }

ProxyInit ==
  /\ proxy \in { ProxyRequest(contentType, query, data) :
                   contentType \in { JsonContentType, FormContentType },
                   query \in ProxyTexts, data \in ProxyTexts }
  /\ NoCall
  /\ SplitIdle
  /\ TwoIdle
  /\ ClientIdle
  /\ ParseIdle
  /\ PageIdle

\* 'text/xml; charset=utf-8'
DefaultContentType == MediaType("text/xml", "utf-8")

\* what an upstream may state: nothing, the type of Overpass XML (without a
\* charset), JSON in UTF-8, an error page in another charset
UpstreamContentTypes ==
  { NoContentType,
    MediaType("application/osm3s+xml", ""),
    MediaType("application/json", "utf-8"),
    MediaType("text/html", "iso-8859-1") }

\* mutant: the default is sent whatever the upstream states
ContentTypeDefaulted(upstreamType) == DefaultContentType

\* upstreamResp.headers.get('content-type') || 'text/xml; charset=utf-8'
ContentTypeOf(upstreamType) ==
  IF upstreamType = NoContentType THEN DefaultContentType ELSE upstreamType

\* res.send(text) of Express with a string: the body is written as UTF-8 and
\* the charset of the Content-Type header that is set is made utf-8
ResSend(type) == [type EXCEPT !.charset = "utf-8"]

\* the handler up to the await of fetch: the timer is set
ProxyForward ==
  /\ proxy.pc = "received"
  /\ proxy' = [proxy EXCEPT !.pc = "forwarding",
                            !.timer = "set",
                            !.wire = Append(@, ProxyUpstreamRequest(proxy))]
  /\ UNCHANGED notProxyVars

\* fetch resolves: the upstream's status and headers are there
ProxyHeaders ==
  /\ proxy.pc = "forwarding"
  /\ \E status \in { 200 } \cup ErrorStatuses, type \in UpstreamContentTypes,
        text \in { Text(0), Text(3) } :
       proxy' = [proxy EXCEPT
                   !.pc = "reading",
                   !.upstream = [status |-> status, type |-> type,
                                 text |-> text]]
  /\ UNCHANGED notProxyVars

\* the upstream's body is read: status, content type and text are passed on,
\* then finally clears the timer
ProxyRespond ==
  /\ proxy.pc = "reading"
  /\ proxy' = [proxy EXCEPT
                 !.pc = "responded",
                 !.status = proxy.upstream.status,
                 !.sentType = ResSend(ContentTypeOf(proxy.upstream.type)),
                 !.sent = proxy.upstream.text,
                 !.responses = @ + 1,
                 !.timer = "cleared"]
  /\ UNCHANGED notProxyVars

\* the timer aborts the request while fetch or the reading of the body is
\* awaited: err.name === 'AbortError'; res.send of a string without a
\* Content-Type makes it text/html
ProxyTimeout ==
  /\ proxy.pc \in { "forwarding", "reading" }
  /\ proxy' = [proxy EXCEPT
                 !.pc = "responded", !.status = 504,
                 !.sentType = MediaType("text/html", "utf-8"),
                 !.sent = << Lit("This operation was aborted") >>,
                 !.responses = @ + 1,
                 !.aborted = TRUE,
                 !.timer = "cleared"]
  /\ UNCHANGED notProxyVars

\* fetch or the reading of the body fails otherwise
ProxyFetchFails ==
  /\ proxy.pc \in { "forwarding", "reading" }
  /\ proxy' = [proxy EXCEPT
                 !.pc = "responded", !.status = 502,
                 !.sentType = MediaType("text/html", "utf-8"),
                 !.sent = << Lit("fetch failed") >>,
                 !.responses = @ + 1,
                 !.failed = TRUE,
                 !.timer = "cleared"]
  /\ UNCHANGED notProxyVars

ProxyNext ==
  \/ ProxyForward \/ ProxyHeaders \/ ProxyRespond \/ ProxyTimeout
  \/ ProxyFetchFails

\* either sender of Overpass requests at work: a call of the client in the
\* browser, or a request handled by the proxy
WireInit == ClientInit \/ ProxyInit

WireNext == ClientNext \/ ProxyNext

WireSpec == WireInit /\ [][WireNext]_vars

-----------------------------------------------------------------------------
(* parseOsmXmlForWater on its own *)

Stated(n) == NumberText(n)

\* <node id="1" lat=".." lon=".."> with a drinking_water tag and a name
FountainNode ==
  XmlElement("node", Stated(1), Stated(29620), Stated(-97580),
             << Tag("amenity", "drinking_water"), Tag("name", "Plaza") >>, << >>)

CafeNode ==
  XmlElement("node", Stated(2), Stated(29624), Stated(-97576),
             << Tag("amenity", "cafe") >>, << >>)

\* a node without tags, as the map API prints the nodes of a way
BareNode ==
  XmlElement("node", Stated(3), Stated(29628), Stated(-97572), << >>, << >>)

\* a tag without a key comes first
TapNode ==
  XmlElement("node", Stated(4), Stated(29632), Stated(-97568),
             << Tag("", "spring"), Tag("man_made", "water_tap") >>, << >>)

\* the key natural is given twice
RetaggedNode ==
  XmlElement("node", Stated(5), Stated(29636), Stated(-97564),
             << Tag("natural", "spring"), Tag("natural", "wood") >>, << >>)

\* no lat attribute
UnplacedNode ==
  XmlElement("node", Stated(6), Absent, Stated(-97560),
             << Tag("amenity", "drinking_water") >>, << >>)

\* lon is not a number
MisplacedNode ==
  XmlElement("node", Stated(7), Stated(29644), WordText,
             << Tag("natural", "spring") >>, << >>)

SpringWay ==
  XmlElement("way", Stated(8), Absent, Absent,
             << Tag("natural", "spring") >>,
             << Center(Stated(29648), Stated(-97552)) >>)

\* no <center>
TapWay ==
  XmlElement("way", Stated(9), Absent, Absent,
             << Tag("man_made", "water_tap") >>, << >>)

PathWay ==
  XmlElement("way", Stated(10), Absent, Absent,
             << Tag("highway", "path") >>,
             << Center(Stated(29656), Stated(-97544)) >>)

\* its <center> has no number for lat
SpringRelation ==
  XmlElement("relation", Stated(11), Absent, Absent,
             << Tag("type", "site"), Tag("natural", "spring") >>,
             << Center(WordText, Stated(-97540)) >>)

ForestRelation ==
  XmlElement("relation", Stated(12), Absent, Absent,
             << Tag("natural", "wood") >>, << >>)

\* an element of another name: <note>, <meta>, <bounds>
NoteElement == XmlElement("note", Absent, Absent, Absent, << >>, << >>)

XmlElements ==
  { FountainNode, CafeNode, BareNode, TapNode, RetaggedNode, UnplacedNode,
    MisplacedNode, SpringWay, TapWay, PathWay, SpringRelation,
    ForestRelation, NoteElement }

\* the documents of at most MaxElements elements
Documents == UNION { [1..n -> XmlElements] : n \in 0..MaxElements }

\* a response text: well-formed XML with these elements, or XML that breaks
\* off after them (a tag left open, a cut in the middle of an element)
XmlText(wellFormed, elements) ==
  [wellFormed |-> wellFormed, elements |-> elements]

XmlTexts == { XmlText(w, d) : w \in BOOLEAN, d \in Documents }

\* the <parsererror> element that reports the error of a text
ParserErrorElement ==
  XmlElement("parsererror", Absent, Absent, Absent, << >>, << >>)

\* new DOMParser().parseFromString(xmlText, 'application/xml') does not
\* throw: of a text that is not well-formed it makes a document with a
\* <parsererror> element, which some browsers put in the place of the whole
\* document and others in front of what they parsed before the error
ParseFromString(text) ==
  IF text.wellFormed THEN { text.elements }
  ELSE { << ParserErrorElement >>,
         << ParserErrorElement >> \o text.elements }

\* parseOsmXmlForWater(xmlText) is called; earlier holds the results of the
\* earlier calls with the same text
ParseInit ==
  /\ \E t \in XmlTexts :
       \E d \in ParseFromString(t) :
         parseCall = [pc |-> "called", text |-> t, xml |-> d,
                      results |-> << >>, threw |-> FALSE, earlier |-> << >>]
  /\ NoCall
  /\ SplitIdle
  /\ TwoIdle
  /\ ClientIdle
  /\ ProxyIdle
  /\ PageIdle

\* parseOsmXmlForWater(xmlText) returns: no statement of it throws
ParseReturn ==
  /\ parseCall.pc = "called"
  /\ parseCall' = [parseCall EXCEPT !.pc = "returned",
                                    !.results = ParseOsmXmlForWater(parseCall.xml)]
  /\ UNCHANGED notParseVars

\* mutant: the results array outlives the call
ParseAgainKeeping ==
  /\ parseCall.pc = "returned"
  /\ Len(parseCall.earlier) + 1 < MaxParses
  /\ parseCall' = [parseCall EXCEPT
                     !.earlier = Append(@, parseCall.results),
                     !.results = @ \o ParseOsmXmlForWater(parseCall.xml)]
  /\ UNCHANGED notParseVars

\* the same text is parsed once more, from const results = [] on
ParseAgain ==
  /\ parseCall.pc = "returned"
  /\ Len(parseCall.earlier) + 1 < MaxParses
  /\ parseCall' = [parseCall EXCEPT
                     !.earlier = Append(@, parseCall.results),
                     !.results = ParseOsmXmlForWater(parseCall.xml)]
  /\ UNCHANGED notParseVars

ParseNext == ParseReturn \/ ParseAgain

ParseSpec == ParseInit /\ [][ParseNext]_vars

-----------------------------------------------------------------------------
(* Numbers of the distance computation. The projected coordinates are whole *)
(* millimetres; their products do not fit the integers of the model         *)
(* checker, so they are kept as a sign and a sequence of digits to the base *)
(* 10000, lowest digit first and no zero digit last. The arithmetic is      *)
(* exact: the rounding of the floating-point operations is not modelled.    *)

Digit(n) == n % 10000

Carry(n) == n \div 10000

RECURSIVE Mag(_)
\* the digits of n >= 0
Mag(n) == IF n = 0 THEN << >> ELSE << Digit(n) >> \o Mag(Carry(n))

Rest(a) == IF a = << >> THEN << >> ELSE Tail(a)

Lowest(a) == IF a = << >> THEN 0 ELSE Head(a)

RECURSIVE MagAdd(_, _, _)
\* a + b + c
MagAdd(a, b, c) ==
  IF a = << >> /\ b = << >> THEN Mag(c)
  ELSE << Digit(Lowest(a) + Lowest(b) + c) >> \o
         MagAdd(Rest(a), Rest(b), Carry(Lowest(a) + Lowest(b) + c))

RECURSIVE MagSub(_, _, _)
\* a - b - c for a >= b + c, zero digits last not yet removed
MagSub(a, b, c) ==
  IF a = << >> THEN << >>
  ELSE IF Head(a) - Lowest(b) - c < 0
       THEN << Head(a) - Lowest(b) - c + 10000 >> \o MagSub(Tail(a), Rest(b), 1)
       ELSE << Head(a) - Lowest(b) - c >> \o MagSub(Tail(a), Rest(b), 0)

RECURSIVE Normal(_)
Normal(a) ==
  IF a = << >> THEN a
  ELSE IF a[Len(a)] = 0 THEN Normal(SubSeq(a, 1, Len(a) - 1)) ELSE a

RECURSIVE MagScale(_, _, _)
\* a * d + c for a digit d > 0
MagScale(a, d, c) ==
  IF a = << >> THEN Mag(c)
  ELSE << Digit(Head(a) * d + c) >> \o MagScale(Tail(a), d, Carry(Head(a) * d + c))

Shift(a) == IF a = << >> THEN a ELSE << 0 >> \o a

RECURSIVE MagMul(_, _)
MagMul(a, b) ==
  IF a = << >> \/ b = << >> THEN << >>
  ELSE IF Head(b) = 0 THEN Shift(MagMul(a, Tail(b)))
       ELSE MagAdd(MagScale(a, Head(b), 0), Shift(MagMul(a, Tail(b))), 0)

RECURSIVE MagLess(_, _)
MagLess(a, b) ==
  IF Len(a) # Len(b) THEN Len(a) < Len(b)
  ELSE IF a = << >> THEN FALSE
       ELSE IF a[Len(a)] # b[Len(b)] THEN a[Len(a)] < b[Len(b)]
            ELSE MagLess(SubSeq(a, 1, Len(a) - 1), SubSeq(b, 1, Len(b) - 1))

\* the number n
Wide(n) == [neg |-> n < 0, mag |-> Mag(IF n < 0 THEN -n ELSE n)]

WNeg(a) == [neg |-> ~a.neg /\ a.mag # << >>, mag |-> a.mag]

WAdd(a, b) ==
  IF a.neg = b.neg THEN [neg |-> a.neg, mag |-> MagAdd(a.mag, b.mag, 0)]
  ELSE IF MagLess(a.mag, b.mag)
       THEN [neg |-> b.neg, mag |-> Normal(MagSub(b.mag, a.mag, 0))]
       ELSE [neg |-> a.neg /\ a.mag # b.mag,
             mag |-> Normal(MagSub(a.mag, b.mag, 0))]

WSub(a, b) == WAdd(a, WNeg(b))

WMul(a, b) ==
  [neg |-> a.neg # b.neg /\ a.mag # << >> /\ b.mag # << >>,
   mag |-> MagMul(a.mag, b.mag)]

WLess(a, b) ==
  IF a.neg # b.neg THEN a.neg
  ELSE IF a.neg THEN MagLess(b.mag, a.mag) ELSE MagLess(a.mag, b.mag)

WLeq(a, b) == ~WLess(b, a)

-----------------------------------------------------------------------------
(* The proximity filter: filterPointsNearRoute and its helpers, of the      *)
(* app.js that README.md prints. Longitudes and latitudes are whole         *)
(* microdegrees, projected coordinates whole millimetres.                   *)

\* a position [lon, lat]
LonLat(lon, lat) == [lon |-> lon, lat |-> lat]

\* << angle, R * lambda, R * ln(tan(pi / 4 + phi / 2)) >> for the angles of
\* the inputs: EARTH_RADIUS_M = 6378137, rounded to the millimetre
MercatorTable ==
  { << 0, 0, 0 >>,
    << 500, 55660, 55660 >>,
    << 530, 58999, 58999 >>,
    << 539, 60001, 60001 >>,
    << 548, 61003, 61003 >>,
    << 1000, 111319, 111319 >>,
    << 2000, 222639, 222639 >>,
    << 500000, 55659745, 55660452 >>,
    << 1000000, 111319491, 111325143 >> }

Angles == { row[1] : row \in MercatorTable }

Projected(angle) == CHOOSE row \in MercatorTable : row[1] = angle

\* mutant: the angles are taken for plane coordinates
LonLatUnprojected(p) == [x |-> p.lon, y |-> p.lat]

LonLatToWebMercator(p) ==
  [x |-> Projected(p.lon)[2], y |-> Projected(p.lat)[3]]

\* a distance d, kept as the exact fraction num / den that d * d is (in
\* square millimetres): Math.sqrt does not change the order of distances
Infinity == [inf |-> TRUE, num |-> Wide(0), den |-> Wide(1)]

Sq(a) == WMul(a, a)

\* d < e
DistLess(d, e) ==
  IF d.inf THEN FALSE
  ELSE IF e.inf THEN TRUE
       ELSE WLess(WMul(d.num, e.den), WMul(e.num, d.den))

\* d <= maxMeters
Within(d, maxMeters) ==
  ~d.inf /\ WLeq(d.num, WMul(Sq(Wide(maxMeters * 1000)), d.den))

\* mutant: t is not clamped, the distance is that to the whole line
PointToLineDistanceMeters(p, a, b) ==
  LET P == LonLatToWebMercator(p)
      A == LonLatToWebMercator(a)
      B == LonLatToWebMercator(b)
      abx == Wide(B.x - A.x)
      aby == Wide(B.y - A.y)
      apx == Wide(P.x - A.x)
      apy == Wide(P.y - A.y)
      sum == WAdd(Sq(abx), Sq(aby))
      abLen2 == IF sum = Wide(0) THEN Wide(1) ELSE sum
      dot == WAdd(WMul(apx, abx), WMul(apy, aby))
      dxn == WSub(WMul(apx, abLen2), WMul(dot, abx))
      dyn == WSub(WMul(apy, abLen2), WMul(dot, aby))
  IN  [inf |-> FALSE, num |-> WAdd(Sq(dxn), Sq(dyn)), den |-> Sq(abLen2)]

\* t = (apx * abx + apy * aby) / abLen2 is the fraction dot / abLen2; clamped
\* to [0, 1] it is tn / abLen2, and dx = px - (ax + t * abx) is
\* (apx * abLen2 - tn * abx) / abLen2
PointToSegmentDistanceMeters(p, a, b) ==
  LET P == LonLatToWebMercator(p)
      A == LonLatToWebMercator(a)
      B == LonLatToWebMercator(b)
      abx == Wide(B.x - A.x)
      aby == Wide(B.y - A.y)
      apx == Wide(P.x - A.x)
      apy == Wide(P.y - A.y)
      sum == WAdd(Sq(abx), Sq(aby))
      abLen2 == IF sum = Wide(0) THEN Wide(1) ELSE sum
      dot == WAdd(WMul(apx, abx), WMul(apy, aby))
      tn == IF WLess(dot, Wide(0)) THEN Wide(0)
            ELSE IF WLess(abLen2, dot) THEN abLen2 ELSE dot
      dxn == WSub(WMul(apx, abLen2), WMul(tn, abx))
      dyn == WSub(WMul(apy, abLen2), WMul(tn, aby))
  IN  [inf |-> FALSE, num |-> WAdd(Sq(dxn), Sq(dyn)), den |-> Sq(abLen2)]

\* a geometry of the route: lines holds the coordinates of a LineString (one
\* line), of a MultiLineString (its lines), of a Point (one line of one
\* position); a feature without geometry has the type "null"
Geometry(type, lines) == [type |-> type, lines |-> lines]

\* a feature as the parser returns it, with its position in microdegrees
WaterPoint(id, type, hasPos, lon, lat) ==
  [id |-> id, type |-> type,
   tags |-> TagsOf(<< Tag("amenity", "drinking_water") >>),
   hasPos |-> hasPos, lat |-> lat, lon |-> lon]

\* 0.0005 degrees east of the meridian, half a degree north
ScenarioPoint == WaterPoint(1, "node", TRUE, 500, 500000)

\* 58.999 m east of the meridian
InsidePoint == WaterPoint(2, "node", TRUE, 530, 500)

\* 61.003 m east of the meridian, a way with its center
OutsidePoint == WaterPoint(3, "way", TRUE, 548, 500)

\* on the meridian
OnRoutePoint == WaterPoint(4, "node", TRUE, 0, 500)

\* on the meridian, north of the short line
BeyondPoint == WaterPoint(5, "node", TRUE, 0, 2000)

\* a way without center
UnplacedWay == WaterPoint(6, "way", FALSE, 0, 0)

\* 58.999 m north of the equator
NorthPoint == WaterPoint(7, "node", TRUE, 500, 530)

\* 61.003 m north of the equator, a relation with its center
FarNorthPoint == WaterPoint(8, "relation", TRUE, 500, 548)

WaterPoints ==
  { ScenarioPoint, InsidePoint, OutsidePoint, OnRoutePoint, BeyondPoint,
    UnplacedWay, NorthPoint, FarNorthPoint }

LineString(coords) == Geometry("LineString", << coords >>)

\* the route polyline [(0, 0), (0, 1)]: one degree of the meridian
ScenarioLine == << LonLat(0, 0), LonLat(0, 1000000) >>

\* 111 m of the meridian
MeridianLine == << LonLat(0, 0), LonLat(0, 1000) >>

\* 111 m of the equator
EquatorLine == << LonLat(0, 0), LonLat(1000, 0) >>

\* half a degree away from the points
FarLine == << LonLat(1000, 1000000), LonLat(1000, 500000) >>

\* north along the meridian, then east
CornerLine == << LonLat(0, 0), LonLat(0, 1000), LonLat(1000, 1000) >>

\* a line of no length
StandstillLine == << LonLat(0, 500), LonLat(0, 500) >>

\* from the origin north and a little east, to where the scenario's point is
DiagonalLine == << LonLat(0, 0), LonLat(500, 500000) >>

\* the routes: tracks of one segment, of two lines, two tracks, a route with a
\* waypoint, and one without any line of two positions
Routes ==
  { << LineString(ScenarioLine) >>,
    << LineString(MeridianLine) >>,
    << LineString(EquatorLine) >>,
    << LineString(DiagonalLine) >>,
    << Geometry("MultiLineString", << FarLine, MeridianLine >>) >>,
    << LineString(EquatorLine), LineString(FarLine) >>,
    << Geometry("Point", << << LonLat(0, 500) >> >>), LineString(CornerLine) >>,
    << LineString(StandstillLine), Geometry("null", << >>) >>,
    << Geometry("Point", << << LonLat(0, 500) >> >>),
       LineString(<< LonLat(0, 0) >>) >> }

\* selectedRadiusMeters
Radii == { 10, 60, 100000 }

\* addLine: coords.length >= 2
LinesOf(geom) ==
  IF geom.type \in { "LineString", "MultiLineString" }
  THEN SelectSeq(geom.lines, LAMBDA coords : Len(coords) >= 2)
  ELSE << >>

RECURSIVE ExtractRouteLineStrings(_)
\* of a FeatureCollection, given as the geometries of its features
ExtractRouteLineStrings(geojson) ==
  IF geojson = << >> THEN << >>
  ELSE LinesOf(Head(geojson)) \o ExtractRouteLineStrings(Tail(geojson))

RECURSIVE MinFrom(_, _, _, _)
\* for (let i = 1; i < line.length; i++) { if (d < min) min = d; }, from the
\* segment that starts at vertex i on
MinFrom(pt, line, i, min) ==
  IF i >= Len(line) THEN min
  ELSE LET d == PointToSegmentDistanceMeters(pt, line[i], line[i + 1])
       IN  MinFrom(pt, line, i + 1, IF DistLess(d, min) THEN d ELSE min)

MinDistancePointToLineStringMeters(pt, line) == MinFrom(pt, line, 1, Infinity)

\* mutant: only the first line of the route is looked at
ScanFirstLine(pt, lineStrings, i, min, maxMeters) ==
  [min |-> MinDistancePointToLineStringMeters(pt, lineStrings[1]), scanned |-> 1]

RECURSIVE ScanLines(_, _, _, _, _)
\* for (const ls of lineStrings) { ...; if (min <= maxMeters) break; } from
\* line i on: the minimum when the loop ends and the lines it looked at
ScanLines(pt, lineStrings, i, min, maxMeters) ==
  IF i > Len(lineStrings) THEN [min |-> min, scanned |-> i - 1]
  ELSE LET d == MinDistancePointToLineStringMeters(pt, lineStrings[i])
           m == IF DistLess(d, min) THEN d ELSE min
       IN  IF Within(m, maxMeters) THEN [min |-> m, scanned |-> i]
           ELSE ScanLines(pt, lineStrings, i + 1, m, maxMeters)

\* mutant: a feature without a position is taken to be at [0, 0]
ResolvedAnyway(p) == TRUE

\* lat = p.lat ?? p.center?.lat, lon likewise, both finite: a feature holds
\* its own or its center's coordinates in lat and lon when hasPos is set
Resolved(p) == p.hasPos

\* the scan of the route for the feature p
Scan(p, lineStrings, maxMeters) ==
  ScanLines(LonLat(p.lon, p.lat), lineStrings, 1, Infinity, maxMeters)

FilterPointsNearRoute(geojsonRoute, points, maxMeters) ==
  LET lineStrings == ExtractRouteLineStrings(geojsonRoute)
  IN  IF lineStrings = << >> THEN << >>
      ELSE SelectSeq(points, LAMBDA p :
             /\ Resolved(p)
             /\ Within(Scan(p, lineStrings, maxMeters).min, maxMeters))


-----------------------------------------------------------------------------
(* filterPointsNearRoute on its own *)

PointLists == UNION { [1..n -> WaterPoints] : n \in 0..MaxPoints }

FilterInit ==
  /\ filterCall \in { [pc |-> "called", route |-> r, points |-> ps,
                       maxMeters |-> m, result |-> << >>, scanned |-> << >>] :
                        r \in Routes, ps \in PointLists, m \in Radii }
  /\ NoCall
  /\ SplitIdle
  /\ TwoIdle
  /\ ClientIdle
  /\ ProxyIdle
  /\ ParseIdle
  /\ BboxIdle
  /\ AppIdle

\* filterPointsNearRoute(geojsonRoute, points, maxMeters) returns; scanned
\* keeps, for each point, the lines the loop looked at
FilterReturn ==
  /\ filterCall.pc = "called"
  /\ filterCall' =
       [filterCall EXCEPT
          !.pc = "returned",
          !.result = FilterPointsNearRoute(filterCall.route, filterCall.points,
                                           filterCall.maxMeters),
          !.scanned =
            [i \in 1..Len(filterCall.points) |->
               IF Resolved(filterCall.points[i])
                  /\ ExtractRouteLineStrings(filterCall.route) # << >>
               THEN Scan(filterCall.points[i],
                         ExtractRouteLineStrings(filterCall.route),
                         filterCall.maxMeters).scanned
               ELSE 0]]
  /\ UNCHANGED notFilterVars

FilterNext == FilterReturn

FilterSpec == FilterInit /\ [][FilterNext]_vars

-----------------------------------------------------------------------------
(* The bounding box of the route: handleGpx from parseGpxFile to the boxes  *)
(* that fetchOSMWaterPointsAdaptive works on. A coordinate of the route is  *)
(* a number in units of 1/800 degree, or NaN.                               *)

Degrees(n) == [finite |-> TRUE, n |-> n]

\* a position [lon, lat] of the GeoJSON that toGeoJSON.gpx returns
Position2(lon, lat) == << lon, lat >>

\* let minLat = 90, maxLat = -90, minLon = 180, maxLon = -180
NoBox == Box(72000, 144000, -72000, -144000)

\* update([lon, lat]): a comparison with NaN is false
Update(box, coords) ==
  LET lon == coords[1]
      lat == coords[2]
  IN  Box(IF lat.finite /\ lat.n < box.minlat THEN lat.n ELSE box.minlat,
          IF lon.finite /\ lon.n < box.minlon THEN lon.n ELSE box.minlon,
          IF lat.finite /\ lat.n > box.maxlat THEN lat.n ELSE box.maxlat,
          IF lon.finite /\ lon.n > box.maxlon THEN lon.n ELSE box.maxlon)

RECURSIVE WalkLine(_, _)
\* walkCoords over the positions of one line
WalkLine(box, line) ==
  IF line = << >> THEN box
  ELSE WalkLine(Update(box, Head(line)), Tail(line))

RECURSIVE WalkCoords(_, _)
\* walkCoords(g.coordinates): every position of every line of the geometry
WalkCoords(box, lines) ==
  IF lines = << >> THEN box
  ELSE WalkCoords(WalkLine(box, Head(lines)), Tail(lines))

RECURSIVE WalkFeatures(_, _)
\* for (const f of geojson.features) ...
WalkFeatures(box, features) ==
  IF features = << >> THEN box
  ELSE WalkFeatures(WalkCoords(box, Head(features).lines), Tail(features))

ComputeBBoxFromGeoJSON(geojson) == WalkFeatures(NoBox, geojson)

\* what toGeoJSON.gpx makes of the elements of a GPX file: of a waypoint a
\* Point, of a route a LineString, of a track a LineString or a
\* MultiLineString. The attributes lat and lon go through parseFloat, which
\* gives NaN for a missing one; the converter is not part of the page, and
\* whether it drops such a position depends on its version
Waypoint(lon, lat) == Geometry("Point", << << Position2(lon, lat) >> >>)

\* <wpt lat="37.05" lon="-121.95">
SpringWaypoint == Waypoint(Degrees(-97560), Degrees(29640))

\* <wpt> without lat and lon
BlankWaypoint == Waypoint(NaN, NaN)

\* <wpt lon="-121.9"> without lat
HalfWaypoint == Waypoint(Degrees(-97520), NaN)

\* the diagonal of the scenario's box
ScenarioTrack ==
  Geometry("LineString",
           << << Position2(Degrees(-97600), Degrees(29600)),
                 Position2(Degrees(-97520), Degrees(29680)) >> >>)

\* from north-west to south-east, with a point without lat and lon between
GappyTrack ==
  Geometry("LineString",
           << << Position2(Degrees(-64), Degrees(32)),
                 Position2(NaN, NaN),
                 Position2(Degrees(0), Degrees(-32)) >> >>)

\* a track that stands still
StandingTrack ==
  Geometry("LineString",
           << << Position2(Degrees(8), Degrees(8)),
                 Position2(Degrees(8), Degrees(8)) >> >>)

\* a track of two segments
TwoSegmentTrack ==
  Geometry("MultiLineString",
           << << Position2(Degrees(0), Degrees(0)),
                 Position2(Degrees(32), Degrees(0)) >>,
              << Position2(Degrees(32), Degrees(16)),
                 Position2(Degrees(64), Degrees(16)) >> >>)

GpxFeatures ==
  { SpringWaypoint, BlankWaypoint, HalfWaypoint, ScenarioTrack, GappyTrack,
    StandingTrack, TwoSegmentTrack }

\* the feature collections of toGeoJSON.gpx, the empty one included
GeoJSONs == UNION { [1..n -> GpxFeatures] : n \in 0..MaxFeatures }

BboxInit ==
  /\ bboxCall \in { [pc |-> "called", geojson |-> g, bbox |-> NoBox,
                     tiles |-> << >>, splits |-> 0] : g \in GeoJSONs }
  /\ NoCall
  /\ SplitIdle
  /\ TwoIdle
  /\ ClientIdle
  /\ ProxyIdle
  /\ ParseIdle
  /\ FilterIdle
  /\ AppIdle

\* parseGpxFile: throw new Error('No features found in GPX.')
ParseGpxFileThrow ==
  /\ bboxCall.pc = "called"
  /\ bboxCall.geojson = << >>
  /\ bboxCall' = [bboxCall EXCEPT !.pc = "threw"]
  /\ UNCHANGED notBboxVars

\* parseGpxFile: return geojson
ParseGpxFileReturn ==
  /\ bboxCall.pc = "called"
  /\ bboxCall.geojson # << >>
  /\ bboxCall' = [bboxCall EXCEPT !.pc = "parsed"]
  /\ UNCHANGED notBboxVars

\* handleGpx: const bbox = computeBBoxFromGeoJSON(geojson), handed to
\* fetchOSMWaterPointsAdaptive, whose first tile it is
ComputeBBox ==
  /\ bboxCall.pc = "parsed"
  /\ bboxCall' =
       [bboxCall EXCEPT !.pc = "fetching",
                        !.bbox = ComputeBBoxFromGeoJSON(bboxCall.geojson),
                        !.tiles = << ComputeBBoxFromGeoJSON(bboxCall.geojson) >>]
  /\ UNCHANGED notBboxVars

\* the span of the tile is above minSpan: 0.01, which handleGpx passes
CanSplitPage(tile) ==
  BboxSpan(tile).lat > DefaultMinSpan \div 2
    \/ BboxSpan(tile).lon > DefaultMinSpan \div 2

\* resolveTile: a tile that failed with a retryable status and can be split
\* is replaced by its quadrants; tiles are the boxes the call works on
SplitTile ==
  /\ bboxCall.pc = "fetching"
  /\ bboxCall.splits < MaxSplits
  /\ \E i \in 1..Len(bboxCall.tiles) :
       /\ CanSplitPage(bboxCall.tiles[i])
       /\ bboxCall' =
            [bboxCall EXCEPT
               !.splits = @ + 1,
               !.tiles = SubSeq(@, 1, i - 1)
                           \o SplitBboxIntoQuads(bboxCall.tiles[i])
                           \o SubSeq(@, i + 1, Len(@))]
  /\ UNCHANGED notBboxVars

BboxNext ==
  \/ ParseGpxFileThrow
  \/ ParseGpxFileReturn
  \/ ComputeBBox
  \/ SplitTile

BboxSpec == BboxInit /\ [][BboxNext]_vars

-----------------------------------------------------------------------------
(* The page (the app.js that README.md prints): handleGpx, resetApp and the *)
(* handler of the radius select. A step is what runs between two awaits.    *)

\* the files a user loads: a GPX without features, a track along the
\* meridian, a track along the equator
NoFeaturesFile == 0

GpxFiles == { NoFeaturesFile, 1, 2 }

\* routeLayer = null, currentRouteGeoJSON = null
NoRoute == 0

\* the GeoJSON that parseGpxFile returns for the file
RouteOf(file) ==
  IF file = 1 THEN << LineString(MeridianLine) >>
  ELSE << LineString(EquatorLine) >>

\* what fetchOSMWaterPointsAdaptive finds in the box of the route
WaterOf(file) ==
  IF file = 1 THEN << InsidePoint, OutsidePoint, OnRoutePoint >>
  ELSE << NorthPoint, FarNorthPoint >>

\* Number(radiusSelect?.value) || 150
DefaultRadiusMeters == 150

\* renderWaterMarkers: lat = p.lat || p.center?.lat, lon likewise; a node
\* with a coordinate 0 has no number there and gets no marker
RenderWaterMarkers(points) ==
  SelectSeq(points, LAMBDA p : ~(p.type = "node" /\ (p.lat = 0 \/ p.lon = 0)))

\* a call of handleGpx
Task(file) == [file |-> file, pc |-> "parsing"]

PageInit ==
  /\ page = [pc |-> "open",
             routeLayer |-> NoRoute,
             currentRouteGeoJSON |-> NoRoute,
             foundWaterPoints |-> << >>,
             foundFor |-> NoRoute,
             markers |-> << >>,
             downloadDisabled |-> TRUE,
             selectedRadiusMeters |-> DefaultRadiusMeters,
             tasks |-> << >>,
             afterReset |-> FALSE,
             lastEvent |-> "load"]
  /\ pool = Idle
  /\ mirror = Idle
  /\ NoCall
  /\ SplitIdle
  /\ TwoIdle
  /\ ClientIdle
  /\ ProxyIdle
  /\ ParseIdle
  /\ FilterIdle
  /\ BboxIdle

\* the change or drop handler: handleGpx(f) runs up to await parseGpxFile
Upload ==
  /\ page.pc = "open"
  /\ Len(page.tasks) < MaxUploads
  /\ \E file \in GpxFiles :
       page' = [page EXCEPT !.tasks = Append(@, Task(file)),
                            !.afterReset = FALSE,
                            !.lastEvent = "upload"]
  /\ UNCHANGED notAppVars
  /\ UNCHANGED << pool, mirror >>

\* parseGpxFile throws 'No features found in GPX.': handleGpx rejects
ParseGpxThrows ==
  /\ page.pc = "open"
  /\ \E i \in 1..Len(page.tasks) :
       /\ page.tasks[i].pc = "parsing"
       /\ page.tasks[i].file = NoFeaturesFile
       /\ page' = [page EXCEPT !.tasks[i].pc = "done",
                               !.lastEvent = "error"]
  /\ UNCHANGED notAppVars
  /\ UNCHANGED << pool, mirror >>

\* parseGpxFile returns: renderRoute(geojson), currentRouteGeoJSON = geojson,
\* up to await fetchOSMWaterPointsAdaptive
ParseGpxReturns ==
  /\ page.pc = "open"
  /\ \E i \in 1..Len(page.tasks) :
       /\ page.tasks[i].pc = "parsing"
       /\ page.tasks[i].file # NoFeaturesFile
       /\ page' = [page EXCEPT !.tasks[i].pc = "fetching",
                               !.routeLayer = page.tasks[i].file,
                               !.currentRouteGeoJSON = page.tasks[i].file,
                               !.lastEvent = "route"]
  /\ UNCHANGED notAppVars
  /\ UNCHANGED << pool, mirror >>

\* the fetch of a call returns its results (the water of the box, or none):
\* foundWaterPoints = results, the markers of the points near the geojson of
\* the call, downloadBtn.disabled = false
FetchReturns ==
  /\ page.pc = "open"
  /\ \E i \in 1..Len(page.tasks) :
       /\ page.tasks[i].pc = "fetching"
       /\ \E results \in { WaterOf(page.tasks[i].file), << >> } :
            page' = [page EXCEPT
                       !.tasks[i].pc = "done",
                       !.foundWaterPoints = results,
                       !.foundFor = page.tasks[i].file,
                       !.markers =
                         RenderWaterMarkers(
                           FilterPointsNearRoute(RouteOf(page.tasks[i].file),
                                                 results,
                                                 page.selectedRadiusMeters)),
                       !.downloadDisabled = FALSE,
                       !.lastEvent = "results"]
  /\ UNCHANGED notAppVars
  /\ UNCHANGED << pool, mirror >>

\* the fetch of a call throws: setError, nothing else changes
FetchThrows ==
  /\ page.pc = "open"
  /\ \E i \in 1..Len(page.tasks) :
       /\ page.tasks[i].pc = "fetching"
       /\ page' = [page EXCEPT !.tasks[i].pc = "done",
                               !.lastEvent = "error"]
  /\ UNCHANGED notAppVars
  /\ UNCHANGED << pool, mirror >>

\* mutant: the handler filters the points whose markers are shown
CandidatesShown(pg) == pg.markers

\* the points that the handler of the radius select filters
Candidates(pg) == pg.foundWaterPoints

\* the change handler of radiusSelect
RadiusChange ==
  /\ page.pc = "open"
  /\ \E val \in Radii :
       page' = [page EXCEPT
                  !.selectedRadiusMeters = val,
                  !.markers =
                    IF page.routeLayer = NoRoute \/ page.foundWaterPoints = << >>
                    THEN @
                    ELSE RenderWaterMarkers(
                           FilterPointsNearRoute(RouteOf(page.routeLayer),
                                                 Candidates(page), val)),
                  !.lastEvent = "radius"]
  /\ UNCHANGED notAppVars
  /\ UNCHANGED << pool, mirror >>

\* resetApp
ResetApp ==
  /\ page.pc = "open"
  /\ page' = [page EXCEPT !.routeLayer = NoRoute,
                          !.markers = << >>,
                          !.currentRouteGeoJSON = NoRoute,
                          !.foundWaterPoints = << >>,
                          !.foundFor = NoRoute,
                          !.downloadDisabled = TRUE,
                          !.afterReset = TRUE,
                          !.lastEvent = "reset"]
  /\ UNCHANGED notAppVars
  /\ UNCHANGED << pool, mirror >>

PageNext ==
  \/ Upload \/ ParseGpxThrows \/ ParseGpxReturns \/ FetchReturns
  \/ FetchThrows \/ RadiusChange \/ ResetApp

PageSpec == PageInit /\ [][PageNext]_vars

-----------------------------------------------------------------------------
(* The tiled fetch of app.js: fetchOverpassWaterPoints and the worker pool  *)
(* runWithConcurrency. Items are numbered from 0, as index counts them. A   *)
(* starter is one of the calls next() of the for loop with the calls that   *)
(* follow it; what runs between two completions of workers is one step.     *)

\* runWithConcurrency(tiles, 2, ...)
TileConcurrency == 2

\* results[current] not assigned
Unset == [set |-> FALSE, nodes |-> << >>]

Assigned(nodes) == [set |-> TRUE, nodes |-> nodes]

\* a node as normalizeNodes returns it; tile stands for the content (lat,
\* lon, tags) that the answer for that tile gave it
Node(id, tile) == [id |-> id, tile |-> tile]

\* the ids of the nodes in the answer for a tile
IdLists == { << >>, << 1 >>, << 2, 1 >> }

\* mutant: a starter for every item
StartersAll(limit, n) == n

\* Math.min(limit, items.length)
Starters(limit, n) == Min(limit, n)

\* mutant: next() is called again only after a worker that returned
ContinuesAfterSuccess(failed) == ~failed

\* finally { ...; await next(); }: after a worker that threw as well
ContinuesAfter(failed) == TRUE

\* mutant: the error of a worker is swallowed
RethrownNever(failed) == FALSE

\* the error leaves the finally block again when the calls after it are done
Rethrown(failed) == failed

RECURSIVE Flattened(_, _, _)
\* for (const arr of all) for (const n of (arr || [])): the nodes in the
\* order of the loops, from item i on
Flattened(all, i, n) ==
  IF i >= n THEN << >>
  ELSE all[i].nodes \o Flattened(all, i + 1, n)

RECURSIVE LastOfEachId(_, _)
\* mutant: dedup.set(n.id, n) for every node: the place of the first
\* occurrence with the content of the last
LastOfEachId(nodes, seen) ==
  IF nodes = << >> THEN << >>
  ELSE IF Head(nodes).id \in seen THEN LastOfEachId(Tail(nodes), seen)
       ELSE LET same == SelectSeq(nodes, LAMBDA m : m.id = Head(nodes).id)
            IN  << same[Len(same)] >>
                  \o LastOfEachId(Tail(nodes), seen \cup { Head(nodes).id })

RECURSIVE FirstOfEachId(_, _)
\* if (!dedup.has(n.id)) dedup.set(n.id, n); Array.from(dedup.values())
FirstOfEachId(nodes, seen) ==
  IF nodes = << >> THEN << >>
  ELSE IF Head(nodes).id \in seen THEN FirstOfEachId(Tail(nodes), seen)
       ELSE << Head(nodes) >>
              \o FirstOfEachId(Tail(nodes), seen \cup { Head(nodes).id })

PoolInit ==
  /\ pool \in { [pc |-> "called", n |-> n, index |-> 0, completed |-> 0,
                 results |-> [i \in 0..(n - 1) |-> Unset],
                 starters |-> << >>, handed |-> << >>, finished |-> << >>,
                 failed |-> { }, progress |-> << >>, result |-> << >>] :
                  n \in 1..MaxTiles }
  /\ page = Idle
  /\ mirror = Idle
  /\ NoCall
  /\ SplitIdle
  /\ TwoIdle
  /\ ClientIdle
  /\ ProxyIdle
  /\ ParseIdle
  /\ FilterIdle
  /\ BboxIdle

\* fetchOverpassWaterPoints up to await runWithConcurrency: every starter
\* takes an item and its worker sends its request
RunWithConcurrency ==
  /\ pool.pc = "called"
  /\ LET s == Starters(TileConcurrency, pool.n)
     IN  pool' = [pool EXCEPT
                    !.pc = "running",
                    !.index = s,
                    !.handed = [k \in 1..s |-> k - 1],
                    !.starters = [k \in 1..s |->
                                    [state |-> "working", item |-> k - 1,
                                     failed |-> FALSE]]]
  /\ UNCHANGED notAppVars
  /\ UNCHANGED << page, mirror >>

\* how Promise.all(starters) stands once starter k is as given
Settled(state, starters) ==
  IF state # "running" THEN state
  ELSE IF \E k \in 1..Len(starters) :
            starters[k].state = "done" /\ starters[k].failed
       THEN "rejected"
       ELSE IF \A k \in 1..Len(starters) : starters[k].state = "done"
            THEN "resolved"
            ELSE "running"

\* the worker of starter k settles: the finally block counts it, calls
\* onProgress and calls next(), which takes the next item or, when there is
\* none, returns, and the calls of the starter end one after the other
Complete(k, failed, nodes) ==
  LET current == pool.starters[k].item
      more == ContinuesAfter(failed) /\ pool.index < pool.n
      after == [pool.starters EXCEPT
                  ![k] = IF more
                         THEN [state |-> "working", item |-> pool.index,
                               failed |-> @.failed \/ failed]
                         ELSE [state |-> "done", item |-> current,
                               failed |-> Rethrown(@.failed \/ failed)]]
  IN  pool' = [pool EXCEPT
                 !.results = IF failed THEN @
                             ELSE [@ EXCEPT ![current] = Assigned(nodes)],
                 !.failed = IF failed THEN @ \cup { current } ELSE @,
                 !.completed = @ + 1,
                 !.progress = Append(@, << pool.completed + 1, pool.n >>),
                 !.finished = Append(@, current),
                 !.index = IF ContinuesAfter(failed) THEN @ + 1 ELSE @,
                 !.handed = IF more THEN Append(@, pool.index) ELSE @,
                 !.starters = after,
                 !.pc = Settled(pool.pc, after)]

Working(k) ==
  /\ pool.pc \in { "running", "rejected", "threw" }
  /\ pool.starters[k].state = "working"

\* requestOverpass returns and normalizeNodes makes the nodes of the tile
WorkerReturns ==
  /\ pool # Idle
  /\ \E k \in 1..Len(pool.starters) :
       /\ Working(k)
       /\ \E ids \in IdLists :
            Complete(k, FALSE,
                     [i \in 1..Len(ids) |->
                        Node(ids[i], pool.starters[k].item)])
  /\ UNCHANGED notAppVars
  /\ UNCHANGED << page, mirror >>

\* requestOverpass throws
WorkerThrows ==
  /\ pool # Idle
  /\ \E k \in 1..Len(pool.starters) :
       /\ Working(k)
       /\ Complete(k, TRUE, << >>)
  /\ UNCHANGED notAppVars
  /\ UNCHANGED << page, mirror >>

\* runWithConcurrency has returned all: the dedup loop and the return
FetchOverpassReturns ==
  /\ pool.pc = "resolved"
  /\ pool' = [pool EXCEPT
                !.pc = "returned",
                !.result = FirstOfEachId(Flattened(pool.results, 0, pool.n),
                                         { })]
  /\ UNCHANGED notAppVars
  /\ UNCHANGED << page, mirror >>

\* runWithConcurrency has thrown: fetchOverpassWaterPoints throws
FetchOverpassThrows ==
  /\ pool.pc = "rejected"
  /\ pool' = [pool EXCEPT !.pc = "threw"]
  /\ UNCHANGED notAppVars
  /\ UNCHANGED << page, mirror >>

PoolNext ==
  \/ RunWithConcurrency \/ WorkerReturns \/ WorkerThrows
  \/ FetchOverpassReturns \/ FetchOverpassThrows

PoolSpec == PoolInit /\ [][PoolNext]_vars

-----------------------------------------------------------------------------
(* The mirrors of app.js: requestOverpass(query) with its defaults, the     *)
(* four OVERPASS_ENDPOINTS and perEndpointRetries = 2                       *)

\* OVERPASS_ENDPOINTS.length
EndpointCount == 4

\* perEndpointRetries = 2
PerEndpointRetries == 2

\* how a request settles: a response with a status, or an error that fetch
\* or resp.json() throws, given by its name and its message
Answer(status) == [status |-> status, name |-> "", message |-> ""]

Thrown(name, message) == [status |-> 0, name |-> name, message |-> message]

\* the timer of fetchWithTimeout aborts the request
TimerAbort == Thrown("AbortError", "The user aborted a request.")

\* fetch fails on the network: a TypeError whose message is the browser's
NetworkErrors ==
  { Thrown("TypeError", "Failed to fetch"),
    Thrown("TypeError", "NetworkError when attempting to fetch resource."),
    Thrown("TypeError", "Load failed") }

\* resp.json() on a body that is not JSON
JsonError == Thrown("SyntaxError", "Unexpected token < in JSON")

\* the statuses of answers that are not ok
MirrorStatuses == { 400, 429, 502, 503, 504 }

MirrorFailures ==
  { Answer(s) : s \in MirrorStatuses } \cup { TimerAbort, JsonError }
    \cup NetworkErrors

\* err.message?.includes(..)
MessagesWithAborted == { "The user aborted a request." }

MessagesOfNetwork ==
  { "Failed to fetch", "NetworkError when attempting to fetch resource." }

\* mutant: 400 is retried on the same endpoint as well
RetriedAlso400(o) ==
  \/ o.status \in { 400, 429, 502, 503, 504 }
  \/ o.name = "AbortError"
  \/ o.message \in MessagesWithAborted \cup MessagesOfNetwork

\* [429, 502, 503, 504].includes(resp.status), or isAbort, or a message
\* with 'NetworkError' or 'Failed to fetch'
Retried(o) ==
  \/ o.status \in { 429, 502, 503, 504 }
  \/ o.name = "AbortError"
  \/ o.message \in MessagesWithAborted \cup MessagesOfNetwork

\* Math.min(1000 * Math.pow(2, attempt), 8000)
MirrorBackoff(attempt) == Min(1000 * Pow2(attempt), 8000)

Attempt(endpoint, attempt) == [endpoint |-> endpoint, attempt |-> attempt]

MirrorInit ==
  /\ mirror = [pc |-> "called", endpoint |-> 1, attempt |-> 0,
               requests |-> << >>, sleeps |-> << >>,
               last |-> Answer(0), lastError |-> Answer(0)]
  /\ page = Idle
  /\ pool = Idle
  /\ NoCall
  /\ SplitIdle
  /\ TwoIdle
  /\ ClientIdle
  /\ ProxyIdle
  /\ ParseIdle
  /\ FilterIdle
  /\ BboxIdle

\* requestOverpass up to the first await fetchWithTimeout
RequestOverpass ==
  /\ mirror.pc = "called"
  /\ mirror' = [mirror EXCEPT !.pc = "awaiting",
                              !.requests = << Attempt(1, 0) >>]
  /\ UNCHANGED notAppVars
  /\ UNCHANGED << page, pool >>

\* the loop over the endpoints goes on: the next endpoint gets its first
\* request, or there is none and lastError is thrown
NextEndpoint(m) ==
  IF m.endpoint < EndpointCount
  THEN [m EXCEPT !.pc = "awaiting", !.endpoint = @ + 1, !.attempt = 0,
                 !.requests = Append(@, Attempt(m.endpoint + 1, 0))]
  ELSE [m EXCEPT !.pc = "threw"]

\* the answer is ok and its body is JSON: return await resp.json()
MirrorReturns ==
  /\ mirror.pc = "awaiting"
  /\ mirror' = [mirror EXCEPT !.pc = "returned", !.last = Answer(200)]
  /\ UNCHANGED notAppVars
  /\ UNCHANGED << page, pool >>

\* a status or an error that is retried: lastError is set and the backoff
\* is slept
MirrorBacksOff ==
  /\ mirror.pc = "awaiting"
  /\ \E o \in MirrorFailures :
       /\ Retried(o)
       /\ mirror' = [mirror EXCEPT
                       !.pc = "sleeping", !.last = o, !.lastError = o,
                       !.sleeps = Append(@, MirrorBackoff(mirror.attempt))]
  /\ UNCHANGED notAppVars
  /\ UNCHANGED << page, pool >>

\* continue after the sleep: attempt++, the same endpoint while attempt <=
\* perEndpointRetries
MirrorWakes ==
  /\ mirror.pc = "sleeping"
  /\ mirror' =
       IF mirror.attempt < PerEndpointRetries
       THEN [mirror EXCEPT
               !.pc = "awaiting", !.attempt = @ + 1,
               !.requests = Append(@, Attempt(mirror.endpoint,
                                              mirror.attempt + 1))]
       ELSE NextEndpoint(mirror)
  /\ UNCHANGED notAppVars
  /\ UNCHANGED << page, pool >>

\* any other status or error: lastError is set, break
MirrorMovesOn ==
  /\ mirror.pc = "awaiting"
  /\ \E o \in MirrorFailures :
       /\ ~Retried(o)
       /\ mirror' = NextEndpoint([mirror EXCEPT !.last = o, !.lastError = o])
  /\ UNCHANGED notAppVars
  /\ UNCHANGED << page, pool >>

MirrorNext ==
  \/ RequestOverpass \/ MirrorReturns \/ MirrorBacksOff \/ MirrorWakes
  \/ MirrorMovesOn

MirrorSpec == MirrorInit /\ [][MirrorNext]_vars

-----------------------------------------------------------------------------
(* Sanity of the model *)

\* the model's integer midpoints are the exact midpoints of the code
MidpointsExact ==
  \A i \in 1..Len(stack) :
    /\ (stack[i].tile.minlat + stack[i].tile.maxlat) % 2 = 0 \/ stack[i].qi = 0
    /\ (stack[i].tile.minlon + stack[i].tile.maxlon) % 2 = 0 \/ stack[i].qi = 0

-----------------------------------------------------------------------------
(* Notions the properties share, stated without the operators of the code *)

LatSpan(b) == b.maxlat - b.minlat

LonSpan(b) == b.maxlon - b.minlon

\* the box can still be split
Splittable(b) == LatSpan(b) > minSpan \/ LonSpan(b) > minSpan

RetryableStatuses == { 400, 429, 504 }

\* the i-th request failed with an error the Splitter recovers from
RetryableFailure(i) ==
  /\ ~responses[i].ok
  /\ responses[i].err.hasStatus
  /\ responses[i].err.status \in RetryableStatuses
  /\ Splittable(requests[i].tile)

\* the i-th request failed with an error the Splitter does not recover from
TerminalFailure(i) == ~responses[i].ok /\ ~RetryableFailure(i)

\* the least d with rootSpan / 2^d <= minSpan in both dimensions
DepthBound ==
  CHOOSE d \in 0..20 :
    /\ LatSpan(bbox) <= minSpan * Pow2(d) /\ LonSpan(bbox) <= minSpan * Pow2(d)
    /\ \A e \in 0..(d - 1) :
         LatSpan(bbox) > minSpan * Pow2(e) \/ LonSpan(bbox) > minSpan * Pow2(e)

\* the number of boxes of a full split tree of depth d: (4^(d+1) - 1) / 3
TreeSize(d) == (Pow2(2 * (d + 1)) - 1) \div 3

Always429 ==
  /\ Len(responses) > 0
  /\ \A i \in 1..Len(responses) : responses[i].err = UpstreamStatus(429)

Done == pc = "done"

-----------------------------------------------------------------------------
C1_Bounded ==
  /\ \A i \in 1..Len(requests) : requests[i].attempt <= DepthBound
  /\ Len(stack) <= DepthBound + 1
  /\ Len(requests) <= TreeSize(DepthBound)
  /\ (Done /\ Always429) =>
       /\ outcome.state = "rejected"
       /\ outcome.err = UpstreamStatus(429)
       /\ ~Splittable(requests[Len(requests)].tile)
       /\ Len(requests) = DepthBound + 1

(* C1: Termination. Whatever the upstream answers, the recursion depth      *)
(* never exceeds the depth at which both spans are <= minSpan and the       *)
(* number of requests never exceeds the size of the full split tree; when   *)
(* every response is 429 the call rejects with that 429 error at a box      *)
(* whose spans are both <= minSpan; and every call eventually settles.      *)
C1_Termination == [] C1_Bounded /\ <> Done

\* a call answered 429 four times in a row has rejected at the minimum span
C1_Witness ==
  /\ Done /\ Always429 /\ Len(requests) >= 4
  /\ outcome.state = "rejected"

-----------------------------------------------------------------------------
C2_ScenarioRun ==
  /\ bbox = ScenarioBox
  /\ Done
  /\ Len(responses) = 5
  /\ responses[1].err = UpstreamStatus(429)
  /\ \A i \in 2..5 :
       /\ responses[i].ok
       /\ Len(responses[i].feats) = 1
       /\ responses[i].feats[1].type = "node"

(* C2: Scenario. For the box (37.0, -122.0, 37.1, -121.9), when the full    *)
(* box is answered 429 and then each of the 4 quadrants is answered 200     *)
(* with one node feature, the call fulfils with exactly 4 features and      *)
(* onProgress has been called exactly 4 times, with 1, 2, 3, 4.             *)
C2_Scenario ==
  C2_ScenarioRun =>
    /\ outcome.state = "fulfilled"
    /\ Len(outcome.value) = 4
    /\ progress = << 1, 2, 3, 4 >>

C2_Witness == C2_ScenarioRun /\ Len(outcome.value) = 4

-----------------------------------------------------------------------------
C3_Root500 == Len(responses) >= 1 /\ responses[1].err = UpstreamStatus(500)

(* C3: Scenario. When the full box is answered 500, the call is rejected    *)
(* in that very step with an error of status 500: one request was made,     *)
(* no backoff sleep started, no quadrant was entered, onProgress was never  *)
(* called.                                                                  *)
C3_FailFast ==
  C3_Root500 =>
    /\ Done
    /\ outcome.state = "rejected"
    /\ outcome.err.hasStatus /\ outcome.err.status = 500
    /\ Len(requests) = 1
    /\ sleeps = << >>
    /\ stack = << >>
    /\ progress = << >>

\* the full box could have been split
C3_Witness == C3_Root500 /\ Splittable(bbox) /\ outcome.state = "rejected"

-----------------------------------------------------------------------------
\* the backoff of the i-th request began, with a positive duration
Slept(i) == \E k \in 1..Len(sleeps) : sleeps[k].request = i /\ sleeps[k].ms > 0

\* the i-th request was followed by the backoff and the split
SplitAfter(i) ==
  /\ Slept(i) \/ initialBackoffMs = 0
  /\ \/ pc = "sleeping" /\ i = Len(requests)
     \/ /\ i < Len(requests)
        /\ requests[i + 1].path = Append(requests[i].path, 1)

(* C4: Retry classification. A failed fetch of a box is followed by the     *)
(* backoff and the split (the SW quadrant requested next, every quadrant    *)
(* with attempt + 1) if and only if its status is 400, 429 or 504 and the   *)
(* box is still splittable; otherwise the call ends there.                  *)
C4_Classification ==
  /\ \A i \in 1..Len(responses) :
       ~responses[i].ok => (SplitAfter(i) <=> RetryableFailure(i))
  /\ \A i \in 1..Len(requests) : \A j \in 1..Len(requests) :
       (/\ Len(requests[j].path) = Len(requests[i].path) + 1
        /\ SubSeq(requests[j].path, 1, Len(requests[i].path)) = requests[i].path)
         => requests[j].attempt = requests[i].attempt + 1

\* a 504 was split, and a later 429 at the minimum span was not
C4_Witness ==
  /\ Len(responses) >= 3
  /\ responses[1].err = UpstreamStatus(504) /\ SplitAfter(1)
  /\ responses[Len(responses)].err = UpstreamStatus(429)
  /\ ~Splittable(requests[Len(responses)].tile)
  /\ ~SplitAfter(Len(responses))

-----------------------------------------------------------------------------
(* C5: Fail-the-whole-call. A failure that is not retryable, in any branch  *)
(* of the split tree, rejects the call with that same error: no request is  *)
(* made after it and the features collected before it are not returned.     *)
C5_FailWholeCall ==
  \A i \in 1..Len(responses) :
    TerminalFailure(i) =>
      /\ Done
      /\ outcome.state = "rejected"
      /\ outcome.err = responses[i].err
      /\ outcome.value = << >>
      /\ i = Len(requests)
      /\ inflight = { }
      /\ stack = << >>

\* a quadrant failed after an earlier quadrant had returned features
C5_Witness ==
  /\ Done
  /\ Len(responses) >= 3
  /\ TerminalFailure(Len(responses))
  /\ Len(requests[Len(responses)].path) >= 1
  /\ \E j \in 1..Len(responses) : responses[j].ok /\ Len(responses[j].feats) > 0
  /\ outcome.state = "rejected"

-----------------------------------------------------------------------------
(* C6: A Timeout of a fetch (the request aborted at the local deadline) on  *)
(* a still-splittable box is recovered by backoff and split-and-retry, and  *)
(* does not reach the caller.                                               *)
C6_TimeoutRecovered ==
  \A i \in 1..Len(responses) :
    (responses[i].err = AbortError /\ Splittable(requests[i].tile)) =>
      /\ SplitAfter(i)
      /\ ~(outcome.state = "rejected" /\ outcome.err = AbortError)

-----------------------------------------------------------------------------
Key(f) == << f.type, f.id >>

Range(seq) == { seq[i] : i \in 1..Len(seq) }

LeafFeatures ==
  UNION { Range(responses[i].feats) : i \in { j \in 1..Len(responses) : responses[j].ok } }

NoDuplicates(seq) ==
  \A i \in 1..Len(seq) : \A j \in 1..Len(seq) :
    Key(seq[i]) = Key(seq[j]) => i = j

(* C7: Pipeline invariant. The features a fulfilled call returns are the    *)
(* union of the features of all successful leaf fetches, and no two of      *)
(* them have the same (kind, id).                                           *)
C7_UnionNoDuplicates ==
  (Done /\ outcome.state = "fulfilled") =>
    /\ Range(outcome.value) = LeafFeatures
    /\ NoDuplicates(outcome.value)

-----------------------------------------------------------------------------
OkIndices == { i \in 1..Len(responses) : responses[i].ok }

DisjointById ==
  \A i \in OkIndices : \A j \in OkIndices :
    i # j =>
      { f.id : f \in Range(responses[i].feats) } \cap
      { f.id : f \in Range(responses[j].feats) } = { }

\* path p comes before path q in the order SW, SE, NW, NE, depth first
RECURSIVE Before(_, _)
Before(p, q) ==
  IF p = << >> THEN q # << >>
  ELSE IF q = << >> THEN FALSE
  ELSE IF p[1] # q[1] THEN p[1] < q[1]
  ELSE Before(Tail(p), Tail(q))

\* the features of the successful fetches among the first n, concatenated
RECURSIVE ConcatLeaves(_)
ConcatLeaves(n) ==
  IF n = 0 THEN << >>
  ELSE ConcatLeaves(n - 1) \o (IF responses[n].ok THEN responses[n].feats ELSE << >>)

RECURSIVE SumLeaves(_)
SumLeaves(n) ==
  IF n = 0 THEN 0
  ELSE SumLeaves(n - 1) + (IF responses[n].ok THEN Len(responses[n].feats) ELSE 0)

C8_SplitRun ==
  /\ Done /\ outcome.state = "fulfilled"
  /\ Len(requests) > 1
  /\ DisjointById

(* C8: Dedup-free union. When a box was split and the successful fetches    *)
(* returned feature sets disjoint by id, the result is the concatenation    *)
(* of their results in the order SW, SE, NW, NE of the recursion: each      *)
(* feature once, the length the sum of the counts.                          *)
C8_Concatenation ==
  C8_SplitRun =>
    /\ \A i \in OkIndices : \A j \in OkIndices :
         i < j => Before(requests[i].path, requests[j].path)
    /\ outcome.value = ConcatLeaves(Len(responses))
    /\ Len(outcome.value) = SumLeaves(Len(responses))
    /\ \A f \in LeafFeatures :
         Cardinality({ k \in 1..Len(outcome.value) : outcome.value[k] = f }) = 1

\* three quadrants or more contributed features
C8_Witness ==
  /\ C8_SplitRun
  /\ Cardinality({ i \in OkIndices : Len(responses[i].feats) > 0 }) >= 3

-----------------------------------------------------------------------------
South(b) == << b.minlat, (b.minlat + b.maxlat) \div 2 >>

North(b) == << (b.minlat + b.maxlat) \div 2, b.maxlat >>

West(b) == << b.minlon, (b.minlon + b.maxlon) \div 2 >>

East(b) == << (b.minlon + b.maxlon) \div 2, b.maxlon >>

\* quadrants 1..4 of b are SW, SE, NW, NE
Quadrant(b, k) ==
  LET lat == IF k \in { 1, 2 } THEN South(b) ELSE North(b)
      lon == IF k \in { 1, 3 } THEN West(b) ELSE East(b)
  IN  Box(lat[1], lon[1], lat[2], lon[2])

RECURSIVE TileAt(_, _)
TileAt(b, path) ==
  IF path = << >> THEN b ELSE TileAt(Quadrant(b, Head(path)), Tail(path))

\* the box after the box at path p, once the subtree of p is complete
RECURSIVE Successor(_)
Successor(p) ==
  IF p = << >> THEN << >>
  ELSE IF p[Len(p)] < 4 THEN [p EXCEPT ![Len(p)] = p[Len(p)] + 1]
  ELSE Successor(SubSeq(p, 1, Len(p) - 1))

(* C9: Sequential fetching. At most one request is in flight; a failed box  *)
(* that is split is followed by its SW quadrant, a fetched box by the next  *)
(* box in the order SW, SE, NW, NE depth first, so a quadrant's subtree is  *)
(* complete before the next quadrant's first request.                       *)
C9_Sequential ==
  /\ Cardinality(inflight) <= 1
  /\ Len(requests) - Len(responses) = Cardinality(inflight)
  /\ \A i \in 1..Len(requests) :
       requests[i].tile = TileAt(bbox, requests[i].path)
  /\ \A i \in 1..(Len(requests) - 1) :
       requests[i + 1].path =
         IF responses[i].ok THEN Successor(requests[i].path)
         ELSE Append(requests[i].path, 1)

\* the NE quadrant of a quadrant was fetched, then the next quadrant
C9_Witness ==
  \E i \in 1..(Len(requests) - 1) :
    /\ Len(requests[i].path) = 2
    /\ requests[i].path[2] = 4
    /\ Len(requests[i + 1].path) = 1
    /\ requests[i + 1].path[1] = requests[i].path[1] + 1
    /\ requests[i].tile # requests[i + 1].tile

-----------------------------------------------------------------------------
(* C10: Progress notifications. onProgress is called once per successful    *)
(* fetch and never for a failed one; the k-th call carries k, the tile      *)
(* counter after its increment, so the last count is the number of          *)
(* successful fetches.                                                      *)
C10_Progress ==
  /\ Len(progress) = Cardinality(OkIndices)
  /\ \A k \in 1..Len(progress) : progress[k] = k
  /\ tilesFetched = Cardinality(OkIndices)

\* a failure before, between and after successful fetches
C10_Witness ==
  /\ Done
  /\ Len(progress) >= 3
  /\ Cardinality(OkIndices) < Len(responses) - 1
  /\ ~responses[Len(responses)].ok

-----------------------------------------------------------------------------
\* min(initialBackoffMs * 2^a, maxBackoffMs)
ExpectedDelay(a) ==
  IF initialBackoffMs * Pow2(a) <= maxBackoffMs
  THEN initialBackoffMs * Pow2(a)
  ELSE maxBackoffMs

\* the sleeps started after the i-th request failed
SleepsAfter(i) == { k \in 1..Len(sleeps) : sleeps[k].request = i }

(* C11: Backoff policy. A retryable failure of a splittable box fetched     *)
(* with counter attempt is followed, before any request for a quadrant, by  *)
(* one sleep of min(initialBackoffMs * 2^attempt, maxBackoffMs) ms (none    *)
(* when that is 0), and nothing else starts a sleep; no delay exceeds       *)
(* maxBackoffMs and a greater attempt never has a shorter delay.            *)
C11_BackoffPolicy ==
  /\ \A i \in 1..Len(responses) :
       Cardinality(SleepsAfter(i)) =
         IF RetryableFailure(i) /\ ExpectedDelay(requests[i].attempt) > 0
         THEN 1 ELSE 0
  /\ \A k \in 1..Len(sleeps) :
       /\ sleeps[k].request \in 1..Len(responses)
       /\ sleeps[k].attempt = requests[sleeps[k].request].attempt
       /\ sleeps[k].ms = ExpectedDelay(sleeps[k].attempt)
       /\ sleeps[k].ms <= maxBackoffMs
       /\ \A l \in 1..Len(sleeps) :
            sleeps[k].attempt <= sleeps[l].attempt => sleeps[k].ms <= sleeps[l].ms
  /\ pc = "sleeping" =>
       /\ inflight = { }
       /\ Len(requests) = Len(responses)
       /\ sleeps # << >>
       /\ sleeps[Len(sleeps)].request = Len(requests)

\* three sleeps, doubling and then capped: 500, 1000, 1000
C11_Witness ==
  /\ Len(sleeps) = 3
  /\ sleeps[1].ms < sleeps[2].ms
  /\ sleeps[3].ms = maxBackoffMs
  /\ initialBackoffMs * Pow2(sleeps[3].attempt) > maxBackoffMs
  /\ Len(requests) > sleeps[3].request

-----------------------------------------------------------------------------
Point(lat, lon) == [lat |-> lat, lon |-> lon]

\* coordinates around the bounds and the midpoint of a range, and a lattice
Samples(min, max) ==
  LET mid == (min + max) \div 2
  IN  (-9..7) \cup { c + d : c \in { min, mid, max }, d \in { -1, 0, 1 } }

SamplePoints(b) ==
  { Point(lat, lon) : lat \in Samples(b.minlat, b.maxlat),
                      lon \in Samples(b.minlon, b.maxlon) }

\* the quadrants of the call that contain point p, bounds included
QuadrantsWith(p) == { k \in 1..Len(splitCall.quads) : InBox(p, splitCall.quads[k]) }

Area(b) == (b.maxlat - b.minlat) * (b.maxlon - b.minlon)

\* the box was bisected at its midpoints into SW, SE, NW, NE
Bisected ==
  LET b == splitCall.box
      q == splitCall.quads
  IN  /\ Len(q) = 4
      /\ \E midLat \in b.minlat..b.maxlat, midLon \in b.minlon..b.maxlon :
           /\ 2 * midLat = b.minlat + b.maxlat
           /\ 2 * midLon = b.minlon + b.maxlon
           /\ q[1] = Box(b.minlat, b.minlon, midLat, midLon)
           /\ q[2] = Box(b.minlat, midLon, midLat, b.maxlon)
           /\ q[3] = Box(midLat, b.minlon, b.maxlat, midLon)
           /\ q[4] = Box(midLat, midLon, b.maxlat, b.maxlon)

\* every point lies in the box if and only if it lies in some quadrant
Covered ==
  \A p \in SamplePoints(splitCall.box) :
    InBox(p, splitCall.box) <=> QuadrantsWith(p) # { }

QuarterAreas ==
  \A k \in 1..Len(splitCall.quads) :
    4 * Area(splitCall.quads[k]) = Area(splitCall.box)

-----------------------------------------------------------------------------
\* path p is a prefix of path q: q leads to the box at p or into it
Prefix(p, q) == Len(p) <= Len(q) /\ SubSeq(q, 1, Len(p)) = p

AtMinSpan(b) == LatSpan(b) <= minSpan /\ LonSpan(b) <= minSpan

(* C13: No split at minimum span. A box whose latitude span and longitude   *)
(* span are both <= minSpan is requested once and never split: no other     *)
(* request is for that box or a box inside it; when its fetch fails with    *)
(* 400, 429 or 504 the call rejects with that error in the same step, with  *)
(* no backoff sleep and no request after it.                                *)
C13_NoSplitAtMinSpan ==
  \A i \in 1..Len(requests) :
    AtMinSpan(requests[i].tile) =>
      /\ \A j \in 1..Len(requests) :
           Prefix(requests[i].path, requests[j].path) => j = i
      /\ \A k \in 1..Len(sleeps) : sleeps[k].request # i
      /\ (/\ i <= Len(responses)
          /\ responses[i].err.hasStatus
          /\ responses[i].err.status \in RetryableStatuses) =>
           /\ pc = "done"
           /\ outcome.state = "rejected"
           /\ outcome.err.hasStatus
           /\ outcome.err.status = responses[i].err.status
           /\ i = Len(requests)
           /\ stack = << >>

\* a quadrant at the minimum span answered 504 after its parent was split
C13_Witness ==
  /\ pc = "done"
  /\ Len(requests) >= 2
  /\ AtMinSpan(requests[Len(requests)].tile)
  /\ ~AtMinSpan(bbox)
  /\ responses[Len(requests)].err = UpstreamStatus(504)
  /\ Slept(1)
  /\ outcome.err = UpstreamStatus(504)

-----------------------------------------------------------------------------
OkResponses(r) == { i \in 1..Len(r.responses) : r.responses[i].ok }

\* the features of the successful fetches among the first n of resps
RECURSIVE ConcatOk(_, _)
ConcatOk(resps, n) ==
  IF n = 0 THEN << >>
  ELSE ConcatOk(resps, n - 1) \o (IF resps[n].ok THEN resps[n].feats ELSE << >>)

\* the call with record r is where a call running alone is after the same
\* answers: its requests walk its own split tree as its own answers say, its
\* progress counts its own successful fetches, its result is theirs
OnItsOwn(r) ==
  /\ r.progress = [k \in 1..Cardinality(OkResponses(r)) |-> k]
  /\ Len(r.requests) = Len(r.responses) + (IF r.pc = "awaiting" THEN 1 ELSE 0)
  /\ r.pc # "start" => r.requests[1].path = << >>
  /\ \A i \in 1..Len(r.requests) :
       r.requests[i].tile = TileAt(r.bbox, r.requests[i].path)
  /\ \A i \in 1..(Len(r.requests) - 1) :
       r.requests[i + 1].path =
         IF r.responses[i].ok THEN Successor(r.requests[i].path)
         ELSE Append(r.requests[i].path, 1)
  /\ \A i \in OkResponses(r) :
       Range(r.responses[i].feats) =
         { Feature(Xml(e)) : e \in { x \in Range(world) : InBox(x, r.requests[i].tile) } }
  /\ r.pc = "done" =>
       IF r.responses[Len(r.responses)].ok
       THEN /\ r.outcome.state = "fulfilled"
            /\ r.outcome.value = ConcatOk(r.responses, Len(r.responses))
       ELSE /\ r.outcome.state = "rejected"
            /\ r.outcome.err = r.responses[Len(r.responses)].err

(* C14: Independence of invocations. Of two calls whose steps interleave,   *)
(* each is at every moment where it would be running alone with the same    *)
(* answers: its tile counter and its onProgress sequence 1, 2, 3, ... count *)
(* its own successful fetches only, it issues every request of its own      *)
(* split tree itself, and its result is that of its own fetches; a step of  *)
(* one call changes nothing of the other.                                   *)
C14_Independent ==
  /\ [](\A c \in CallIds :
          /\ OnItsOwn(calls[c])
          /\ counters[c] = Cardinality(OkResponses(calls[c])))
  /\ [][\A c \in CallIds :
          (calls'[c] # calls[c] \/ counters'[c] # counters[c]) =>
            \A d \in CallIds \ { c } :
              calls'[d] = calls[d] /\ counters'[d] = counters[d]]_vars

\* both calls are under way on the same box, each has been told of two
\* tiles, and each has fetched the same quadrant from the upstream itself
C14_Witness ==
  /\ calls[1].bbox = calls[2].bbox
  /\ calls[1].pc = "awaiting" /\ calls[2].pc = "awaiting"
  /\ calls[1].progress = << 1, 2 >> /\ calls[2].progress = << 1, 2 >>
  /\ \E i \in OkResponses(calls[1]) : \E j \in OkResponses(calls[2]) :
       /\ calls[1].requests[i].tile = calls[2].requests[j].tile
       /\ calls[1].requests[i].path # << >>
       /\ Len(calls[1].responses[i].feats) > 0

-----------------------------------------------------------------------------
ClientPending == client.pc \in { "fetching", "reading", "reading_error" }

ClientSettled == client.pc \in { "returned", "thrown" }

(* C15: One request per call. A call of the upstream client issues exactly  *)
(* one network request, whether it returns, fails with a non-success        *)
(* status, fails on the connection or times out: none before it is made,    *)
(* one from then on, never a second.                                        *)
C15_OneRequest ==
  /\ client.pc = "called" => Len(client.wire) = 0
  /\ (ClientPending \/ ClientSettled) => Len(client.wire) = 1

\* a call that timed out has made its one request
C15_Witness ==
  /\ client.pc = "thrown"
  /\ client.err = AbortError
  /\ client.elapsed >= client.timeoutMs
  /\ Len(client.wire) = 1

-----------------------------------------------------------------------------
(* C16: Hard timeout. No call of the upstream client is pending longer      *)
(* than timeoutMs, reading the response body included; a call cut off at    *)
(* timeoutMs fails with the abort error of the timer.                       *)
C16_HardTimeout ==
  /\ ClientPending => client.elapsed <= client.timeoutMs
  /\ (client.pc = "thrown" /\ client.timer = "fired") => client.err = AbortError

-----------------------------------------------------------------------------
\* the characters of the response body quoted in the message of the error
Excerpt(err) == SubSeq(err.message, 4, Len(err.message))

(* C17: Status errors. A response with a non-success status makes the call  *)
(* throw an error whose status field is the numeric status (the value       *)
(* getStatusFromError gives the Splitter) and whose message quotes a        *)
(* prefix of the body of at most 200 characters; a success response makes   *)
(* it return the body text as it is.                                        *)
C17_StatusError ==
  /\ (ClientSettled /\ client.resp # NoResponse /\ ~client.resp.ok) =>
       /\ client.pc = "thrown"
       /\ client.err.hasStatus
       /\ client.err.status = client.resp.status
       /\ GetStatusFromError(client.err) = client.resp.status
       /\ client.err.message[2] = Num(client.resp.status)
       /\ Len(Excerpt(client.err)) <= 200
       /\ Len(Excerpt(client.err)) <= Len(client.resp.body)
       /\ Excerpt(client.err) = SubSeq(client.resp.body, 1, Len(Excerpt(client.err)))
  /\ client.pc = "returned" =>
       /\ client.resp.ok
       /\ client.result = client.resp.body

\* a 429 with a body of 250 characters: the first 200 are quoted
C17_Witness ==
  /\ client.pc = "thrown"
  /\ client.resp.status = 429
  /\ Len(client.resp.body) = 250
  /\ Len(Excerpt(client.err)) = 200
  /\ client.err.status = 429

-----------------------------------------------------------------------------
\* the places of text where a filter clause ends and its box begins: ](
Filters(text) ==
  { i \in 1..Len(text) : i + 9 <= Len(text) /\ text[i] = Lit("]") /\ text[i + 1] = Lit("(") }

\* four numbers separated by commas start at place i of text
FourNumbers(text, i) ==
  /\ i + 6 <= Len(text)
  /\ \A k \in { 0, 2, 4, 6 } : text[i + k].t = "num"
  /\ \A k \in { 1, 3, 5 } : text[i + k] = Lit(",")

NumbersAt(text, i) == << text[i].n, text[i + 2].n, text[i + 4].n, text[i + 6].n >>

LatFirst(b) == << b.minlat, b.minlon, b.maxlat, b.maxlon >>

LonFirst(b) == << b.minlon, b.minlat, b.maxlon, b.maxlat >>

(* C18: Coordinate order. The Overpass query of a box has 9 filter clauses  *)
(* and each lists the box as (minLat, minLon, maxLat, maxLon); the URL of   *)
(* the map API request lists it as (minLon, minLat, maxLon, maxLat);        *)
(* neither holds the numbers of the box anywhere else.                      *)
C18_CoordinateOrder ==
  (ClientPending \/ ClientSettled) =>
    IF client.source = "overpass"
    THEN /\ Cardinality(Filters(client.query)) = 9
         /\ \A i \in Filters(client.query) :
              /\ FourNumbers(client.query, i + 2)
              /\ NumbersAt(client.query, i + 2) = LatFirst(client.bbox)
              /\ client.query[i + 9] = Lit(")")
         /\ Cardinality({ i \in 1..Len(client.query) : client.query[i].t = "num" }) = 36
         /\ \A i \in 1..Len(client.wire[1].url) : client.wire[1].url[i].t = "lit"
    ELSE /\ Len(client.wire[1].url) = 8
         /\ FourNumbers(client.wire[1].url, 2)
         /\ NumbersAt(client.wire[1].url, 2) = LonFirst(client.bbox)
         /\ client.wire[1].body = << >>

\* an Overpass query went out for a box whose two orders differ
C18_Witness ==
  /\ client.pc = "fetching"
  /\ client.source = "overpass"
  /\ LatFirst(client.bbox) # LonFirst(client.bbox)
  /\ \E i \in Filters(client.query) :
       NumbersAt(client.query, i + 2) = LatFirst(client.bbox)

-----------------------------------------------------------------------------
\* the characters that mean something in a form body or are not allowed in
\* one unescaped
ReservedCharacters ==
  { " ", "\n", "\"", "%", "&", "+", ",", ":", ";", "=", "[", "]" }

\* what the upstream reads for one token of a form value
FormDecodeToken(tok) ==
  IF tok.t = "num" THEN tok
  ELSE CASE tok.s = "+" -> Lit(" ")
         [] tok.s = "%20" -> Lit(" ")
         [] tok.s = "%0A" -> Lit("\n")
         [] tok.s = "%22" -> Lit("\"")
         [] tok.s = "%25" -> Lit("%")
         [] tok.s = "%26" -> Lit("&")
         [] tok.s = "%2B" -> Lit("+")
         [] tok.s = "%2C" -> Lit(",")
         [] tok.s = "%3A" -> Lit(":")
         [] tok.s = "%3B" -> Lit(";")
         [] tok.s = "%3D" -> Lit("=")
         [] tok.s = "%5B" -> Lit("[")
         [] tok.s = "%5D" -> Lit("]")
         [] OTHER -> tok

FormDecode(text) == [i \in 1..Len(text) |-> FormDecodeToken(text[i])]

\* request req is a form post of the field data with value query
FormPostOf(req, query) ==
  /\ req.method = "POST"
  /\ req.headers =
       { << "Content-Type", "application/x-www-form-urlencoded;charset=UTF-8" >> }
  /\ Len(req.body) = Len(query) + 1
  /\ req.body[1] = Lit("data=")
  /\ \A i \in 2..Len(req.body) :
       req.body[i].t = "lit" => req.body[i].s \notin ReservedCharacters
  /\ FormDecode(Tail(req.body)) = query

ClientAtWork == client # Idle /\ client.pc # "called"

ProxyAtWork == proxy # Idle /\ proxy.pc # "received"

(* C19: Wire-level contract. The request fetchOverpassXml sends, and the    *)
(* request the proxy sends upstream for a JSON {query} input and for a      *)
(* form-encoded data= input, is a POST with Content-Type                    *)
(* application/x-www-form-urlencoded;charset=UTF-8 whose body is data=      *)
(* followed by the URL-encoded query: no reserved character is left in it   *)
(* and the upstream decodes it to the query.                                *)
C19_WireContract ==
  /\ (ClientAtWork /\ client.source = "overpass") =>
       /\ Len(client.wire) = 1
       /\ client.query # << >>
       /\ FormPostOf(client.wire[1], client.query)
  /\ ProxyAtWork =>
       /\ Len(proxy.wire) = 1
       /\ \E query \in { proxy.body.query, proxy.body.data, << >> } :
            FormPostOf(proxy.wire[1], query)
       /\ (proxy.contentType = "application/json" /\ proxy.body.query # << >>) =>
            FormPostOf(proxy.wire[1], proxy.body.query)
       /\ (proxy.contentType # "application/json" /\ proxy.body.data # << >>) =>
            FormPostOf(proxy.wire[1], proxy.body.data)

\* the proxy forwarded a JSON query in which & = + % and a space occur, all
\* escaped in the body
C19_Witness ==
  /\ ProxyAtWork
  /\ proxy.contentType = "application/json"
  /\ \E i \in 1..Len(proxy.body.query) : proxy.body.query[i] = Lit("&")
  /\ proxy.body.data # << >>
  /\ proxy.body.data # proxy.body.query
  /\ \E i \in 1..Len(proxy.wire[1].body) : proxy.wire[1].body[i] = Lit("%26")
  /\ \E i \in 1..Len(proxy.wire[1].body) : proxy.wire[1].body[i] = Lit("%2B")

-----------------------------------------------------------------------------
(* C20 *)

\* the element gives key k the value v: its last tag with the key says so
Tagged(el, k, v) ==
  \E i \in 1..Len(el.tags) :
    /\ el.tags[i].k = k
    /\ el.tags[i].v = v
    /\ \A j \in (i + 1)..Len(el.tags) : el.tags[j].k # k

WaterTagged(el) ==
  \/ Tagged(el, "amenity", "drinking_water")
  \/ Tagged(el, "natural", "spring")
  \/ Tagged(el, "man_made", "water_tap")

\* the node states both of its coordinates as numbers
Placed(el) == el.lat.kind = "number" /\ el.lon.kind = "number"

OsmKinds == { "node", "way", "relation" }

\* how many elements of the document have this name and id and satisfy P
ElementsWith(doc, name, id, P(_)) ==
  Cardinality({ i \in 1..Len(doc) :
                  doc[i].name = name /\ doc[i].id.n = id /\ P(doc[i]) })

\* how many features of the output have this type and id
Emitted(out, name, id) ==
  Cardinality({ i \in 1..Len(out) : out[i].type = name /\ out[i].id = id })

(* C20: Parser inclusion. Once parseOsmXmlForWater has returned, its output *)
(* has nothing but node, way and relation features; it has as many way      *)
(* (relation) features of an id as the document has ways (relations) of     *)
(* that id whose tags give amenity = drinking_water, natural = spring or    *)
(* man_made = water_tap; and it has a node feature for every such node that *)
(* states its lat and lon as numbers, and for no node without these tags.   *)
C20_Inclusion ==
  parseCall.pc = "returned" =>
    LET doc == parseCall.xml
        out == parseCall.results
        ids == { doc[i].id.n : i \in 1..Len(doc) } \cup
               { out[i].id : i \in 1..Len(out) }
    IN  /\ \A i \in 1..Len(out) : out[i].type \in OsmKinds
        /\ \A id \in ids :
             /\ \A name \in { "way", "relation" } :
                  Emitted(out, name, id) = ElementsWith(doc, name, id, WaterTagged)
             /\ Emitted(out, "node", id) <= ElementsWith(doc, "node", id, WaterTagged)
             /\ Emitted(out, "node", id) >=
                  ElementsWith(doc, "node", id,
                               LAMBDA el : WaterTagged(el) /\ Placed(el))

\* a document with a tap node, a cafe and a way tagged as a spring was
\* parsed: the tap and the spring are in the output, the cafe is not
C20_Witness ==
  /\ parseCall.pc = "returned"
  /\ parseCall.xml = << CafeNode, SpringWay, TapNode >>
  /\ Len(parseCall.results) = 2
  /\ parseCall.results[1].id = 4 /\ parseCall.results[1].type = "node"
  /\ parseCall.results[2].id = 8 /\ parseCall.results[2].type = "way"

-----------------------------------------------------------------------------
(* C21 *)

\* the node features of an id in the output
NodesEmitted(out, id) == Emitted(out, "node", id)

(* C21: Node position rule. Once parseOsmXmlForWater has returned, every    *)
(* node feature of its output has the lat and lon that a water-tagged node  *)
(* of its id states as numbers, and the output has no more node features of *)
(* an id than the document has such nodes: a water-tagged node whose lat or *)
(* lon is absent or not a finite number is dropped.                         *)
C21_NodePosition ==
  parseCall.pc = "returned" =>
    LET doc == parseCall.xml
        out == parseCall.results
    IN  \A i \in 1..Len(out) :
          out[i].type = "node" =>
            /\ \E j \in 1..Len(doc) :
                 /\ doc[j].name = "node" /\ doc[j].id.n = out[i].id
                 /\ WaterTagged(doc[j]) /\ Placed(doc[j])
                 /\ out[i].hasPos
                 /\ out[i].lat = doc[j].lat.n /\ out[i].lon = doc[j].lon.n
            /\ NodesEmitted(out, out[i].id) <=
                 ElementsWith(doc, "node", out[i].id,
                              LAMBDA el : WaterTagged(el) /\ Placed(el))

-----------------------------------------------------------------------------
(* C22 *)

\* the <center> of the element states both coordinates as numbers
Centered(el) ==
  /\ el.centers # << >>
  /\ el.centers[1].lat.kind = "number" /\ el.centers[1].lon.kind = "number"

-----------------------------------------------------------------------------
(* C23 *)

\* the positions in the document of the elements that make it to the output
PushedAt(doc) ==
  { j \in 1..Len(doc) :
      /\ doc[j].name \in OsmKinds
      /\ IsWater(TagsOf(doc[j].tags))
      /\ doc[j].name = "node" => HasPosition(doc[j]) }

\* the elements at the positions of js, in document order
InDocumentOrder(doc, js) ==
  SelectSeq([j \in 1..Len(doc) |-> [at |-> j, el |-> doc[j]]],
            LAMBDA x : x.at \in js)

(* C23: Parser output order is document order. Once parseOsmXmlForWater has *)
(* returned, the features of its output are those of the elements it keeps, *)
(* in the order in which these elements stand in the document, also when    *)
(* nodes, ways and relations are interleaved.                               *)
C23_DocumentOrder ==
  parseCall.pc = "returned" =>
    LET kept == InDocumentOrder(parseCall.xml, PushedAt(parseCall.xml))
    IN  /\ Len(parseCall.results) = Len(kept)
        /\ \A i \in 1..Len(kept) :
             /\ parseCall.results[i].type = kept[i].el.name
             /\ parseCall.results[i].id = kept[i].el.id.n

-----------------------------------------------------------------------------
(* C24 *)

(* C24: Malformed XML propagates as a ParseError. A call of                 *)
(* parseOsmXmlForWater with a text that is not well-formed XML does not     *)
(* return a feature list: it throws.                                        *)
C24_ParseError ==
  parseCall.pc = "returned" /\ ~parseCall.text.wellFormed => parseCall.threw

-----------------------------------------------------------------------------
(* C25 *)

-----------------------------------------------------------------------------
(* C26 *)

\* the line strings of the route: the lines of its LineString and
\* MultiLineString geometries
LineStringsOf(route) ==
  UNION { { route[g].lines[l] : l \in 1..Len(route[g].lines) } :
            g \in { h \in 1..Len(route) :
                      route[h].type \in { "LineString", "MultiLineString" } } }

\* the segments of the route: the pairs of consecutive positions of its lines
SegmentsOf(route) ==
  UNION { { << line[i], line[i + 1] >> : i \in 1..(Len(line) - 1) } :
            line \in LineStringsOf(route) }

\* the feature has a position, and a segment of the route is no farther from
\* it than the radius
NearRoute(p, route, radius) ==
  /\ p.hasPos
  /\ \E seg \in SegmentsOf(route) :
       Within(PointToSegmentDistanceMeters(LonLat(p.lon, p.lat), seg[1], seg[2]),
              radius)

(* C26: Proximity Filter result. filterPointsNearRoute(route, features,     *)
(* radius) returns the features that have a position and whose least        *)
(* distance to the segments of the lines of the route is at most the        *)
(* radius, each as often as the input has it and in the order of the input; *)
(* a feature without a position is left out.                                *)
C26_FilterResult ==
  filterCall.pc = "returned" =>
    filterCall.result =
      SelectSeq(filterCall.points,
                LAMBDA p : NearRoute(p, filterCall.route, filterCall.maxMeters))

\* 111 m of the meridian with a radius of 60 m: of a way 61 m away, given
\* first, and a node 59 m away the filter has returned the node
C26_Witness ==
  /\ filterCall.pc = "returned"
  /\ filterCall.route = << LineString(MeridianLine) >>
  /\ filterCall.maxMeters = 60
  /\ filterCall.points = << OutsidePoint, InsidePoint >>
  /\ filterCall.result = << InsidePoint >>

-----------------------------------------------------------------------------
(* C27 *)

\* the distances of the feature to all segments of all lines of the route
DistancesTo(p, route) ==
  { PointToSegmentDistanceMeters(LonLat(p.lon, p.lat), seg[1], seg[2]) :
      seg \in SegmentsOf(route) }

\* the full minimum: a distance that none of the others is less than
FullMinimum(p, route) ==
  IF DistancesTo(p, route) = { } THEN Infinity
  ELSE CHOOSE d \in DistancesTo(p, route) :
         \A e \in DistancesTo(p, route) : ~DistLess(e, d)

\* the filter that never leaves the scan early
FilterByFullMinimum(route, points, maxMeters) ==
  SelectSeq(points,
            LAMBDA p : p.hasPos /\ Within(FullMinimum(p, route), maxMeters))

(* C27: Short-circuit equivalence. Leaving the scan of the lines of the     *)
(* route as soon as a distance within the radius is found changes nothing:  *)
(* filterPointsNearRoute returns what a filter returns that takes the full  *)
(* minimum over all segments of all lines and compares it to the radius.    *)
C27_ShortCircuit ==
  filterCall.pc = "returned" =>
    filterCall.result =
      FilterByFullMinimum(filterCall.route, filterCall.points,
                          filterCall.maxMeters)

\* a route of the equator line and a far line, radius 60 m: for the node 59 m
\* north of the equator the scan stopped after the first of the two lines,
\* for the relation 61 m north it looked at both
C27_Witness ==
  /\ filterCall.pc = "returned"
  /\ filterCall.route = << LineString(EquatorLine), LineString(FarLine) >>
  /\ filterCall.maxMeters = 60
  /\ filterCall.points = << NorthPoint, FarNorthPoint >>
  /\ filterCall.scanned = << 1, 2 >>
  /\ filterCall.result = << NorthPoint >>

-----------------------------------------------------------------------------
(* C28 *)

\* the route is one straight segment: its two ends, projected
StraightRoute(route) ==
  /\ Cardinality(SegmentsOf(route)) = 1
  /\ \A seg \in SegmentsOf(route) : seg[1] # seg[2]

SegmentEnds(route) ==
  LET seg == CHOOSE s \in SegmentsOf(route) : TRUE
  IN  << LonLatToWebMercator(seg[1]), LonLatToWebMercator(seg[2]) >>

Abs(n) == IF n < 0 THEN -n ELSE n

Between(v, a, b) == (a <= v /\ v <= b) \/ (b <= v /\ v <= a)

\* the feature lies on the segment: at one of its ends, or between the ends
\* of a segment that runs along an axis of the plane
OnSegment(P, A, B) ==
  \/ P = A
  \/ P = B
  \/ A.x = B.x /\ P.x = A.x /\ Between(P.y, A.y, B.y)
  \/ A.y = B.y /\ P.y = A.y /\ Between(P.x, A.x, B.x)

\* the feature lies off a segment that runs along an axis, across from a
\* point of it: the millimetres between the two, and no number otherwise
PerpendicularOffset(P, A, B) ==
  IF A.x = B.x /\ Between(P.y, A.y, B.y) THEN { Abs(P.x - A.x) }
  ELSE IF A.y = B.y /\ Between(P.x, A.x, B.x) THEN { Abs(P.y - A.y) }
       ELSE { }

\* the feature lies on the line of a segment that runs along an axis, past
\* one of its ends: the millimetres to the nearer end
OffsetPastEnd(P, A, B) ==
  IF A.x = B.x /\ P.x = A.x /\ ~Between(P.y, A.y, B.y)
  THEN { IF Abs(P.y - A.y) < Abs(P.y - B.y)
         THEN Abs(P.y - A.y) ELSE Abs(P.y - B.y) }
  ELSE IF A.y = B.y /\ P.y = A.y /\ ~Between(P.x, A.x, B.x)
       THEN { IF Abs(P.x - A.x) < Abs(P.x - B.x)
              THEN Abs(P.x - A.x) ELSE Abs(P.x - B.x) }
       ELSE { }

Returned(p) == \E i \in 1..Len(filterCall.result) : filterCall.result[i] = p

(* C28: Distance monotonicity. With the route one straight segment, the     *)
(* distance computed for a feature that lies on the segment is 0; a feature *)
(* at least radius + 1 metres off the segment at a right angle is not       *)
(* returned by the filter and one at most radius - 1 metres off is; the     *)
(* parameter t is clamped, so a feature on the line of the segment past its *)
(* end is as far away as that end. Metres are those of the projected plane. *)
C28_DistanceMonotonicity ==
  filterCall.pc = "returned" /\ StraightRoute(filterCall.route) =>
    \A i \in 1..Len(filterCall.points) :
      LET p == filterCall.points[i]
          P == LonLatToWebMercator(LonLat(p.lon, p.lat))
          A == SegmentEnds(filterCall.route)[1]
          B == SegmentEnds(filterCall.route)[2]
          seg == CHOOSE s \in SegmentsOf(filterCall.route) : TRUE
          away == PerpendicularOffset(P, A, B) \cup OffsetPastEnd(P, A, B)
      IN  p.hasPos =>
            /\ OnSegment(P, A, B) =>
                 PointToSegmentDistanceMeters(LonLat(p.lon, p.lat),
                                              seg[1], seg[2]).num = Wide(0)
            /\ \A mm \in away :
                 /\ mm >= (filterCall.maxMeters + 1) * 1000 => ~Returned(p)
                 /\ mm <= (filterCall.maxMeters - 1) * 1000 => Returned(p)

\* 111 m of the meridian, radius 60 m: the node 58.999 m east of it is
\* returned and the way 61.003 m east of it is not; the node on the meridian
\* past the end of the line by 111 m is as far from the line as from its end
C28_Witness ==
  /\ filterCall.pc = "returned"
  /\ filterCall.route = << LineString(MeridianLine) >>
  /\ filterCall.maxMeters = 60
  /\ filterCall.points = << InsidePoint, OutsidePoint >>
  /\ filterCall.result = << InsidePoint >>
  /\ PointToSegmentDistanceMeters(LonLat(0, 500), LonLat(0, 0),
                                  LonLat(0, 1000)).num = Wide(0)
  /\ ~Within(PointToSegmentDistanceMeters(LonLat(0, 2000), LonLat(0, 0),
                                          LonLat(0, 1000)), 60)

-----------------------------------------------------------------------------
(* C29 *)

\* the route polyline [(0, 0), (0, 1)]
ScenarioRoute == << LineString(ScenarioLine) >>

(* C29: Scenario. For the route polyline [(0, 0), (0, 1)] (lon, lat) and a  *)
(* candidate at (0.0005, 0.5), the filter returns the candidate with a      *)
(* radius of 100,000 m and does not return it with a radius of 10 m.        *)
C29_Scenario ==
  /\ filterCall.pc = "returned"
  /\ filterCall.route = ScenarioRoute
  /\ \E i \in 1..Len(filterCall.points) : filterCall.points[i] = ScenarioPoint
  => /\ filterCall.maxMeters = 100000 => Returned(ScenarioPoint)
     /\ filterCall.maxMeters = 10 => ~Returned(ScenarioPoint)

\* the candidate, 55.66 m east of the route, was filtered with a radius of
\* 10 m and left out; a radius of 100,000 m keeps it
C29_Witness ==
  /\ filterCall.pc = "returned"
  /\ filterCall.route = ScenarioRoute
  /\ filterCall.points = << ScenarioPoint >>
  /\ filterCall.maxMeters = 10
  /\ filterCall.result = << >>
  /\ FilterPointsNearRoute(ScenarioRoute, << ScenarioPoint >>, 100000)
       = << ScenarioPoint >>

-----------------------------------------------------------------------------
(* C30 *)

Ordered(b) == b.minlat <= b.maxlat /\ b.minlon <= b.maxlon

\* a position of the route states both a longitude and a latitude
Positioned(geojson) ==
  \E f \in 1..Len(geojson) :
    \E l \in 1..Len(geojson[f].lines) :
      \E c \in 1..Len(geojson[f].lines[l]) :
        geojson[f].lines[l][c][1].finite /\ geojson[f].lines[l][c][2].finite

OrderedWhenPositioned ==
  bboxCall.pc = "fetching" /\ Positioned(bboxCall.geojson) =>
    \A i \in 1..Len(bboxCall.tiles) : Ordered(bboxCall.tiles[i])

\* the box of an accepted route without such a position is the one the
\* computation starts from, and it is not split
InvertedWhenUnpositioned ==
  bboxCall.pc = "fetching" /\ ~Positioned(bboxCall.geojson) =>
    ~Ordered(bboxCall.bbox) /\ bboxCall.tiles = << bboxCall.bbox >>

-----------------------------------------------------------------------------
(* C31 *)

ProxyResponded == proxy # Idle /\ proxy.pc = "responded"

\* what every request gets, whatever the Content-Type of a relayed answer:
\* the upstream's status and body when both arrived, 504 when the timer
\* aborted the request, 502 on another failure, one response, the timer
\* cleared
ProxyAnswers ==
  /\ proxy # Idle => proxy.responses <= 1
  /\ ProxyResponded =>
       /\ proxy.responses = 1
       /\ proxy.timer = "cleared"
       /\ proxy.aborted => proxy.status = 504
       /\ proxy.failed => proxy.status = 502
       /\ ~proxy.aborted /\ ~proxy.failed =>
            /\ proxy.status = proxy.upstream.status
            /\ proxy.sent = proxy.upstream.text

ProxyRelayed == ProxyResponded /\ ~proxy.aborted /\ ~proxy.failed

-----------------------------------------------------------------------------
(* C32 *)

\* no call of handleGpx is between its start and its end
NoUploadInFlight ==
  \A i \in 1..Len(page.tasks) : page.tasks[i].pc = "done"

(* C32: UI consistency of route and water points. Whenever no call of       *)
(* handleGpx is in flight and the download button is enabled, the route     *)
(* shown (routeLayer, currentRouteGeoJSON) is the one whose fetch stored    *)
(* foundWaterPoints.                                                        *)
C32_RouteAndWater ==
  page.pc = "open" /\ NoUploadInFlight /\ ~page.downloadDisabled =>
    /\ page.routeLayer = page.foundFor
    /\ page.currentRouteGeoJSON = page.foundFor

-----------------------------------------------------------------------------
(* C33 *)

(* C33: Reset is durable. From resetApp until the user loads a new file,    *)
(* foundWaterPoints is empty, no route and no water markers are shown and   *)
(* the download button is disabled, whatever completes in between.          *)
C33_ResetDurable ==
  page.pc = "open" /\ page.afterReset =>
    /\ page.foundWaterPoints = << >>
    /\ page.routeLayer = NoRoute
    /\ page.markers = << >>
    /\ page.downloadDisabled

-----------------------------------------------------------------------------
(* C40 *)

RECURSIVE Subsequence(_, _)
\* s is what remains of t when some of its elements are left out
Subsequence(s, t) ==
  IF s = << >> THEN TRUE
  ELSE IF t = << >> THEN FALSE
       ELSE IF Head(s) = Head(t) THEN Subsequence(Tail(s), Tail(t))
            ELSE Subsequence(s, Tail(t))

\* a route is shown and water points are stored: the handler of the radius
\* select has something to filter
Filterable == page.routeLayer # NoRoute /\ page.foundWaterPoints # << >>

\* the markers of the stored points near the route shown, for a radius
MarkersFor(radius) ==
  RenderWaterMarkers(
    SelectSeq(page.foundWaterPoints,
              LAMBDA p : NearRoute(p, RouteOf(page.routeLayer), radius)))

(* C40: Radius monotonicity and history independence. For the route shown   *)
(* and the stored water points, what filterPointsNearRoute returns for a    *)
(* radius is a subsequence of what it returns for any larger radius; and    *)
(* after a change of the radius the markers shown are those of the stored   *)
(* points near the route for the radius selected last, whatever was         *)
(* selected before.                                                         *)
C40_RadiusMonotone ==
  page.pc = "open" /\ Filterable =>
    /\ \A r1 \in Radii, r2 \in Radii :
         r1 <= r2 =>
           Subsequence(
             FilterPointsNearRoute(RouteOf(page.routeLayer),
                                   page.foundWaterPoints, r1),
             FilterPointsNearRoute(RouteOf(page.routeLayer),
                                   page.foundWaterPoints, r2))
    /\ page.lastEvent = "radius" =>
         page.markers = MarkersFor(page.selectedRadiusMeters)

\* the track along the meridian with its three water points: after the
\* radius went to 10 m, the last change selected 60 m, and the marker of
\* the node 59 m away is shown (the node on the meridian is near, but a
\* coordinate 0 gets no marker)
C40_Witness ==
  /\ page.pc = "open"
  /\ page.lastEvent = "radius"
  /\ page.routeLayer = 1
  /\ page.foundWaterPoints = WaterOf(1)
  /\ page.selectedRadiusMeters = 60
  /\ page.markers = << InsidePoint >>

-----------------------------------------------------------------------------
(* C34 *)

PoolAtWork == pool # Idle /\ pool.pc # "called"

\* the items whose worker has been called and has not settled
InFlight ==
  { pool.handed[i] : i \in 1..Len(pool.handed) }
    \ { pool.finished[i] : i \in 1..Len(pool.finished) }

(* C34: Bounded concurrency of the tiled fetch. At no time are more than    *)
(* limit invocations of the worker in flight (2 tile requests for           *)
(* fetchOverpassWaterPoints), and never more than there are items.          *)
C34_BoundedConcurrency ==
  PoolAtWork =>
    /\ Cardinality(InFlight) <= TileConcurrency
    /\ Cardinality(InFlight) <= pool.n

\* of three tiles the first is done and the two others are in flight
C34_Witness ==
  /\ PoolAtWork
  /\ pool.n = 3
  /\ pool.finished = << 0 >>
  /\ InFlight = { 1, 2 }

-----------------------------------------------------------------------------
(* C35 *)

AllStartersDone ==
  \A k \in 1..Len(pool.starters) : pool.starters[k].state = "done"

PoolSettled == pool.pc \in { "resolved", "rejected", "returned", "threw" }

(* C35: Worker-pool completeness. Whether or not workers fail, every item   *)
(* is handed to the worker once, in the order of the items; a result is     *)
(* stored at the index of its item; onProgress is called with completed =   *)
(* 1, 2, ... and total = items.length, items.length times in all; and       *)
(* runWithConcurrency settles only after every item has been handed to the  *)
(* worker.                                                                  *)
C35_PoolComplete ==
  PoolAtWork =>
    /\ \A i \in 1..Len(pool.handed) : pool.handed[i] = i - 1
    /\ Len(pool.handed) <= pool.n
    /\ \A i \in 0..(pool.n - 1) :
         /\ pool.results[i].set =>
              /\ i \in { pool.finished[j] : j \in 1..Len(pool.finished) }
              /\ i \notin pool.failed
              /\ \A j \in 1..Len(pool.results[i].nodes) :
                   pool.results[i].nodes[j].tile = i
         /\ i \in { pool.finished[j] : j \in 1..Len(pool.finished) }
              /\ i \notin pool.failed => pool.results[i].set
    /\ \A i \in 1..Len(pool.progress) : pool.progress[i] = << i, pool.n >>
    /\ Len(pool.progress) = Len(pool.finished)
    /\ Len(pool.progress) <= pool.n
    /\ PoolSettled => Len(pool.handed) = pool.n
    /\ AllStartersDone =>
         /\ Len(pool.progress) = pool.n
         /\ PoolSettled

\* three tiles, the worker of the first threw and the two others returned:
\* all three were handed out, three calls of onProgress, the call threw
C35_Witness ==
  /\ PoolAtWork
  /\ pool.n = 3
  /\ pool.failed = { 0 }
  /\ AllStartersDone
  /\ pool.handed = << 0, 1, 2 >>
  /\ pool.progress = << << 1, 3 >>, << 2, 3 >>, << 3, 3 >> >>
  /\ pool.results[1].set /\ pool.results[2].set
  /\ pool.pc = "threw"

-----------------------------------------------------------------------------
(* C36 *)

(* C36: Worker-pool failure propagation. When the worker throws for an      *)
(* item, runWithConcurrency throws and fetchOverpassWaterPoints with it:    *)
(* neither returns a list that lacks the points of the failed tile.         *)
C36_FailurePropagates ==
  PoolAtWork =>
    /\ pool.pc \in { "resolved", "returned" } => pool.failed = { }
    /\ pool.failed # { } /\ AllStartersDone =>
         pool.pc \in { "rejected", "threw" }

\* the worker of the second of three tiles threw, the others returned
\* nodes, and fetchOverpassWaterPoints threw
C36_Witness ==
  /\ PoolAtWork
  /\ pool.n = 3
  /\ pool.failed = { 1 }
  /\ pool.results[0].nodes # << >>
  /\ pool.results[2].nodes # << >>
  /\ AllStartersDone
  /\ pool.pc = "threw"

-----------------------------------------------------------------------------
(* C38 *)

\* the nodes that the tiles returned
Occurrences ==
  UNION { { pool.results[i].nodes[j] : j \in 1..Len(pool.results[i].nodes) } :
            i \in 0..(pool.n - 1) }

(* C38: Dedup by id in the tiled fetch. The list that                       *)
(* fetchOverpassWaterPoints returns has no two points with the same id, has *)
(* every id that a tile returned, and has for each id the occurrence of the *)
(* lowest-indexed tile that returned it, in whatever order the fetches of   *)
(* the tiles completed.                                                     *)
C38_DedupById ==
  PoolAtWork /\ pool.pc = "returned" =>
    /\ \A i \in 1..Len(pool.result), j \in 1..Len(pool.result) :
         pool.result[i].id = pool.result[j].id => i = j
    /\ { pool.result[i].id : i \in 1..Len(pool.result) }
         = { o.id : o \in Occurrences }
    /\ \A i \in 1..Len(pool.result) :
         /\ pool.result[i] \in Occurrences
         /\ \A o \in Occurrences :
              o.id = pool.result[i].id => pool.result[i].tile <= o.tile

\* the fetch of the third tile completed first and that of the first tile
\* last; all returned node 1, and the list has it as the first tile gave it
C38_Witness ==
  /\ PoolAtWork
  /\ pool.pc = "returned"
  /\ pool.n = 3
  /\ pool.finished = << 1, 2, 0 >>
  /\ \A i \in 0..2 : \E j \in 1..Len(pool.results[i].nodes) :
                        pool.results[i].nodes[j].id = 1
  /\ Node(1, 0) \in { pool.result[i] : i \in 1..Len(pool.result) }
  /\ Node(2, 1) \in { pool.result[i] : i \in 1..Len(pool.result) }

-----------------------------------------------------------------------------
(* C37: the fail-over over the mirrors                                      *)

RetryStatuses == { 429, 502, 503, 504 }

\* an abort or a network error, whatever the browser calls it
AbortOrNetwork(o) == o.name = "AbortError" \/ o \in NetworkErrors

\* an abort or a network error worded as Chrome or Firefox word it
AbortOrWordedNetwork(o) ==
  o.name = "AbortError" \/ o.message \in MessagesOfNetwork

\* the requests so far follow the list of the endpoints, at most
\* PerEndpointRetries + 1 for each
InListOrder(rs) ==
  /\ Len(rs) <= EndpointCount * (PerEndpointRetries + 1)
  /\ Len(rs) > 0 => rs[1] = Attempt(1, 0)
  /\ \A e \in 1..EndpointCount :
       Cardinality({ i \in 1..Len(rs) : rs[i].endpoint = e })
         <= PerEndpointRetries + 1
  /\ \A i \in 1..(Len(rs) - 1) :
       \/ rs[i + 1] = Attempt(rs[i].endpoint, rs[i].attempt + 1)
       \/ rs[i + 1] = Attempt(rs[i].endpoint + 1, 0)

\* the last request follows the one before it as the outcome of that one
\* demands: the same endpoint again, after the backoff, exactly when the
\* outcome is retried and a retry is left
FollowsOutcome(m, retriedStatus, retriedError) ==
  LET rs == m.requests
      retried == retriedStatus \/ retriedError
  IN  /\ m.pc = "sleeping" =>
           /\ retried
           /\ m.sleeps[Len(m.sleeps)] = Min(1000 * Pow2(m.attempt), 8000)
      /\ (m.pc = "awaiting" /\ Len(rs) >= 2) =>
           LET r == rs[Len(rs)]
               q == rs[Len(rs) - 1]
           IN  /\ r.endpoint = q.endpoint
                    <=> (retried /\ q.attempt < PerEndpointRetries)
               /\ retried =>
                    /\ Len(m.sleeps) > 0
                    /\ m.sleeps[Len(m.sleeps)]
                         = Min(1000 * Pow2(q.attempt), 8000)
      /\ m.pc = "returned" =>
           /\ m.last = Answer(200)
           /\ rs[Len(rs)] = Attempt(m.endpoint, m.attempt)
      /\ m.pc = "threw" =>
           /\ m.lastError = m.last
           /\ m.last \in MirrorFailures
           /\ rs[Len(rs)].endpoint = EndpointCount

-----------------------------------------------------------------------------
(* C39: the tree of the splits                                              *)

Contains(outer, inner) ==
  /\ outer.minlat <= inner.minlat
  /\ inner.maxlat <= outer.maxlat
  /\ outer.minlon <= inner.minlon
  /\ inner.maxlon <= outer.maxlon

\* the spans of tile are those of root divided by 2^d
SpansHalved(root, tile, d) ==
  /\ BboxSpan(tile).lat * Pow2(d) = BboxSpan(root).lat
  /\ BboxSpan(tile).lon * Pow2(d) = BboxSpan(root).lon

\* one of the spans of root divided by 2^d exceeds the minimum span
SpanExceeds(root, d) ==
  \/ BboxSpan(root).lat > minSpan * Pow2(d)
  \/ BboxSpan(root).lon > minSpan * Pow2(d)

\* C39: the root box is requested with attempt 0; every box requested with
\* attempt d lies in the root box and has the root's spans divided by 2^d;
\* and a box is requested with attempt d > 0 only when a span of the root
\* divided by 2^(d-1) exceeds minSpan, so the attempt never passes the
\* depth at which both spans are at most minSpan.
C39_SplitTree ==
  pc # "idle" =>
    /\ Len(requests) > 0 =>
         requests[1].tile = bbox /\ requests[1].attempt = 0
    /\ \A i \in 1..Len(requests) :
         LET q == requests[i]
         IN  /\ q.attempt = Len(q.path)
             /\ Contains(bbox, q.tile)
             /\ SpansHalved(bbox, q.tile, q.attempt)
             /\ q.attempt > 0 => SpanExceeds(bbox, q.attempt - 1)
             /\ i > 1 => q.attempt > 0

\* a quadrant of a quadrant of a box of 0.08 by 0.08 degree was requested:
\* it has a quarter of the spans, and is not split again at minSpan 0.02
C39_Witness ==
  /\ pc # "idle"
  /\ BboxSpan(bbox) = [lat |-> 64, lon |-> 64]
  /\ minSpan = DefaultMinSpan
  /\ \E i \in 1..Len(requests) :
       /\ requests[i].attempt = 2
       /\ BboxSpan(requests[i].tile) = [lat |-> 16, lon |-> 16]
       /\ requests[i].tile # Box(0, 0, 16, 16)
       /\ ~SpanExceeds(bbox, 2)

=============================================================================
